---- MODULE Spec2Model ----
(***************************************************************************)
(* A model of the 限号 (vehicle tail-number restriction) widget scripts:   *)
(*   scripts/限号/utils/network.ts  page fetch, daily and weekly extraction *)
(*   scripts/限号/utils/service.ts  getLimitNumbers, getWeeklyLimitNumbers  *)
(*   scripts/限号/utils/city.ts     constants, withTimeout, getUserCity     *)
(*                                                                         *)
(* Text is modelled character by character: a JavaScript string is a       *)
(* sequence of one-character names.  The tools' lexer takes ASCII only, so *)
(* a Chinese character is written by its pinyin (numbered where two        *)
(* characters share a syllable):                                           *)
(*   今 jin  日 ri  周 zhou  一 yi  二 er  三 san  四 si  五 wu  六 liu        *)
(*   限 xian  行 xing  号 hao  尾 wei  不 bu  和 he  与 yu  为 wei2  是 shi   *)
(*   节 jie  假 jia  法 fa  定 ding  除 chu  外 wai  星 xing1  期 qi  至 zhi  *)
(*   机 ji  动 dong  车 che  牌 pai  分 fen  别 bie  本 ben  明 ming         *)
(*   单 dan  双 shuang  时 shi2  间 jian  段 duan  点 dian  到 dao           *)
(*   规 gui  则 ze  工 gong  作 zuo  北 bei  京 jing  市 shi4  上 shang      *)
(*   海 hai  成 cheng  都 du  未 wei4  找 zhao  信 xin  息 xi  获 huo         *)
(*   取 qu  失 shi1  败 bai  暂 zan  无 wu2  百 bai2  度 du2  搜 sou          *)
(*   索 suo  结 jie2  果 guo  效 xiao  或 huo2  重 chong  向 xiang3          *)
(*   页 ye  面 mian  错 cuo  误 wu4  知 zhi1  HTTP HTTP                      *)
(*   ： colonF  ， commaF  、 dun  。 stopF  （ lparF  ） rparF  ； semiF      *)
(*   – endash  newline nl  space " "                                       *)
(* Markup that the code looks for as a whole is one character name:        *)
(*   class="  CLASSQ     op_limited_num">  NUMTAG                         *)
(*   op_limited_time">  TIMETAG    </div>  ENDDIV                         *)
(*   location.replace  LOCREPLACE   meta http-equiv="refresh"  METAREFRESH *)
(*   today  TODAY                                                          *)
(***************************************************************************)
EXTENDS Integers, Sequences, FiniteSets, TLC

(***************************************************************************)
(* Regular expressions, with JavaScript's backtracking order.              *)
(***************************************************************************)
Digits == {"0", "1", "2", "3", "4", "5", "6", "7", "8", "9"}
Spaces == {" ", "nl"}

\* a regular expression is a tree of these nodes
In(S) == [t |-> "in", s |-> S]
Out(S) == [t |-> "out", s |-> S]
Cat(rs) == [t |-> "cat", rs |-> rs]
Alt(rs) == [t |-> "alt", rs |-> rs]
Rep(r, lo, hi, greedy) == [t |-> "rep", r |-> r, lo |-> lo, hi |-> hi, greedy |-> greedy]
Cap(n, r) == [t |-> "cap", n |-> n, r |-> r]
Eol == [t |-> "eol"]

\* the upper limit of * and +: no modelled text is longer
Unbounded == 99
Lit(w) == Cat([k \in 1..Len(w) |-> In({w[k]})])
Opt(r) == Rep(r, 0, 1, TRUE)
Star(r) == Rep(r, 0, Unbounded, TRUE)
Plus(r) == Rep(r, 1, Unbounded, TRUE)
LazyStar(r) == Rep(r, 0, Unbounded, FALSE)
D == In(Digits)
Sp == In(Spaces)
Dot == Out({"nl"})
AnyCh == Out({})

MaxCaps == 5
NoCaps == [n \in 1..MaxCaps |-> <<0, 0>>]

RECURSIVE Res(_, _, _, _)
RECURSIVE CatFrom(_, _, _, _)
RECURSIVE CatOver(_, _, _, _, _)
RECURSIVE RepFrom(_, _, _, _)
RECURSIVE RepOver(_, _, _, _, _)
RECURSIVE AltFrom(_, _, _, _, _)
RECURSIVE CapAll(_, _, _, _)

\* the ways re matches s from position i, best first: <<[e, c], ...>>,
\* e the position after the match and c the captures (spans <<from, to>>)
Res(re, s, i, c) ==
  CASE re.t = "in" -> IF i <= Len(s) /\ s[i] \in re.s THEN <<[e |-> i + 1, c |-> c]>> ELSE <<>>
    [] re.t = "out" -> IF i <= Len(s) /\ s[i] \notin re.s THEN <<[e |-> i + 1, c |-> c]>> ELSE <<>>
    [] re.t = "eol" -> IF i = Len(s) + 1 THEN <<[e |-> i, c |-> c]>> ELSE <<>>
    [] re.t = "cat" -> CatFrom(re.rs, 1, s, [e |-> i, c |-> c])
    [] re.t = "alt" -> AltFrom(re.rs, 1, s, i, c)
    [] re.t = "rep" -> RepFrom(re, s, [e |-> i, c |-> c], 0)
    [] re.t = "cap" -> CapAll(re.n, i, Res(re.r, s, i, c), 1)

CatFrom(rs, k, s, st) ==
  IF k > Len(rs) THEN <<st>>
  ELSE CatOver(rs, k, s, Res(rs[k], s, st.e, st.c), 1)

CatOver(rs, k, s, outs, j) ==
  IF j > Len(outs) THEN <<>>
  ELSE CatFrom(rs, k + 1, s, outs[j]) \o CatOver(rs, k, s, outs, j + 1)

AltFrom(rs, k, s, i, c) ==
  IF k > Len(rs) THEN <<>>
  ELSE Res(rs[k], s, i, c) \o AltFrom(rs, k + 1, s, i, c)

RepFrom(re, s, st, n) ==
  LET stop == IF n >= re.lo THEN <<st>> ELSE <<>>
      once == IF n < re.hi
              THEN SelectSeq(Res(re.r, s, st.e, st.c), LAMBDA o : o.e > st.e)
              ELSE <<>>
      more == RepOver(re, s, once, 1, n + 1)
  IN IF re.greedy THEN more \o stop ELSE stop \o more

RepOver(re, s, outs, j, n) ==
  IF j > Len(outs) THEN <<>>
  ELSE RepFrom(re, s, outs[j], n) \o RepOver(re, s, outs, j + 1, n)

CapAll(n, i, outs, j) ==
  IF j > Len(outs) THEN <<>>
  ELSE <<[e |-> outs[j].e, c |-> [outs[j].c EXCEPT ![n] = <<i, outs[j].e>>]]>>
       \o CapAll(n, i, outs, j + 1)

NoMatch == [ok |-> FALSE, b |-> 0, e |-> 0, c |-> NoCaps]

RECURSIVE Search(_, _, _)
\* RegExp.exec from position i: the leftmost match
Search(re, s, i) ==
  IF i > Len(s) + 1 THEN NoMatch
  ELSE LET r == Res(re, s, i, NoCaps)
       IN IF r # <<>> THEN [ok |-> TRUE, b |-> i, e |-> r[1].e, c |-> r[1].c]
          ELSE Search(re, s, i + 1)

\* text.match(re) and re.exec(text) without the g flag
Match(re, s) == Search(re, s, 1)

Sub(s, b, e) == SubSeq(s, b, e - 1)
Whole(s, m) == Sub(s, m.b, m.e)
Group(s, m, n) == Sub(s, m.c[n][1], m.c[n][2])

RECURSIVE MatchAllFrom(_, _, _)
MatchAllFrom(re, s, i) ==
  LET m == Search(re, s, i)
  IN IF ~m.ok THEN <<>>
     ELSE <<Whole(s, m)>> \o MatchAllFrom(re, s, IF m.e > m.b THEN m.e ELSE m.e + 1)

\* text.match(re) with the g flag: every match, left to right, as strings
MatchAll(re, s) == MatchAllFrom(re, s, 1)

(***************************************************************************)
(* String methods                                                          *)
(***************************************************************************)
\* s.indexOf(w, from), 1-based; 0 when absent
IndexOfFrom(s, w, from) ==
  LET m == Search(Lit(w), s, from) IN IF m.ok THEN m.b ELSE 0
IndexOf(s, w) == IndexOfFrom(s, w, 1)
Includes(s, w) == IndexOf(s, w) # 0
EndsWith(s, w) == Len(s) >= Len(w) /\ SubSeq(s, Len(s) - Len(w) + 1, Len(s)) = w

RECURSIVE TrimLeft(_)
TrimLeft(s) == IF s # <<>> /\ s[1] \in Spaces THEN TrimLeft(Tail(s)) ELSE s
RECURSIVE TrimRight(_)
TrimRight(s) ==
  IF s # <<>> /\ s[Len(s)] \in Spaces THEN TrimRight(SubSeq(s, 1, Len(s) - 1)) ELSE s
Trim(s) == TrimRight(TrimLeft(s))

\* s.replace(/[S]/g, '')
Remove(s, S) == SelectSeq(s, LAMBDA ch : ch \notin S)
\* s.replace(/[^S]/g, '')
Keep(s, S) == SelectSeq(s, LAMBDA ch : ch \in S)

RECURSIVE SplitFrom(_, _, _, _)
SplitFrom(s, seps, i, cur) ==
  IF i > Len(s) THEN <<cur>>
  ELSE IF s[i] \in seps
       THEN IF i > 1 /\ s[i - 1] \in seps
            THEN SplitFrom(s, seps, i + 1, cur)
            ELSE <<cur>> \o SplitFrom(s, seps, i + 1, <<>>)
       ELSE SplitFrom(s, seps, i + 1, Append(cur, s[i]))
\* s.split(/[seps]+/)
Split(s, seps) == SplitFrom(s, seps, 1, <<>>)

(***************************************************************************)
(* Words of the source                                                     *)
(***************************************************************************)
JinRi == <<"jin", "ri">>
XianXing == <<"xian", "xing">>
XianHao == <<"xian", "hao">>
WeiHao == <<"wei", "hao">>
BuXian == <<"bu", "xian">>
BuXianXing == <<"bu", "xian", "xing">>
JieJiaRi == <<"jie", "jia", "ri">>
FaDingJieJiaRi == <<"fa", "ding", "jie", "jia", "ri">>
ChuWai == <<"chu", "wai">>
FenBieWei == <<"fen", "bie", "wei2", "colonF">>
NotFound == <<"wei4", "zhao", "dao", "xian", "hao", "xin", "xi">>
Failed == <<"huo", "qu", "xian", "hao", "xin", "xi", "shi1", "bai">>
NoInfo == <<"zan", "wu2", "xin", "xi">>
WeeklyFailed == <<"huo", "qu", "shi1", "bai">>
GongZuoRi == <<"gong", "zuo", "ri">>
InvalidPageMessage ==
  <<"bai2", "du2", "sou", "suo", "jie2", "guo", "wu2", "xiao", "huo2", "wei2",
    "chong", "ding", "xiang3", "ye", "mian">>
HttpErrorMessage == <<"HTTP", "cuo", "wu4", ":", " ", "5", "0", "0">>
UnknownError == <<"wei4", "zhi1", "cuo", "wu4">>

BeiJing == <<"bei", "jing">>
BeiJingShi == <<"bei", "jing", "shi4">>
ShangHai == <<"shang", "hai">>
ChengDu == <<"cheng", "du">>

DEFAULT_CITY == BeiJing
WEEK_DAYS ==
  << <<"zhou", "yi">>, <<"zhou", "er">>, <<"zhou", "san">>, <<"zhou", "si">>,
     <<"zhou", "wu">>, <<"zhou", "liu">>, <<"zhou", "ri">> >>
\* array[i] of JavaScript, from 0
At0(a, i) == a[i + 1]

CITY_WEEKEND_RULES == [c \in {BeiJing, ShangHai} |-> TRUE]

Colons == {":", "colonF"}
\* the characters s and d: what \s and \d of a template literal turn into
LitS == In({"s"})
LitD == In({"d"})
\* (不限行|不限)
NoLimitGroup(n) == Cap(n, Alt(<<Lit(BuXianXing), Lit(BuXian)>>))
\* 不限行?
BuXianXingOpt == Cat(<<Lit(BuXian), Opt(In({"xing"}))>>)
\* \d+和\d+
Pair == Cat(<<Plus(D), In({"he"}), Plus(D)>>)
\* \d+(?:、\d+)*
DunList == Cat(<<Plus(D), Star(Cat(<<In({"dun"}), Plus(D)>>))>>)
\* \d{1,2}
D12 == Rep(D, 1, 2, TRUE)
\* \d{1,2}:\d{1,2}
Clock == Cat(<<D12, In({":"}), D12>>)

(***************************************************************************)
(* fetchLimitNumbersFromNetwork: the daily extraction                      *)
(***************************************************************************)
\* weekDayIndex of the daily fetch, from Date.getDay()
weekDayIndex(todayIndex) ==
  IF todayIndex = 0 THEN 6
  ELSE IF todayIndex = 6 THEN 5
  ELSE todayIndex - 1

todayWeekDayOf(todayIndex) == At0(WEEK_DAYS, weekDayIndex(todayIndex))

\* the patterns built with new RegExp(`...`): in a template literal \s is the
\* letter s, \d the letter d and \( an opening parenthesis
numberPatternsAnchored(W) ==
  << Cat(<<Lit(JinRi), Star(LitS), Lit(W), Star(LitS), Lit(XianXing), Lit(WeiHao),
           Opt(In(Colons)), Star(LitS),
           Cap(1, Cat(<<Plus(LitD), In({"he"}), Plus(LitD)>>))>>),
     Cat(<<Lit(JinRi), Star(LitS), Lit(W), Star(LitS), Lit(XianHao),
           Opt(In(Colons)), Star(LitS),
           Cap(1, Cat(<<Plus(LitD), In({"he"}), Plus(LitD)>>))>>),
     Cat(<<Lit(W), Star(LitS), Lit(XianXing), Lit(WeiHao),
           Opt(In(Colons)), Star(LitS),
           Cap(1, Cat(<<Plus(LitD), In({"he"}), Plus(LitD)>>))>>),
     Cat(<<Lit(W), Star(LitS), Lit(XianHao),
           Opt(In(Colons)), Star(LitS),
           Cap(1, Cat(<<Plus(LitD), In({"he"}), Plus(LitD)>>))>>) >>

\* the regular-expression literals of numberPatterns
numberPatternsGeneric ==
  << Cat(<<In({"xian"}), In({"xing", "hao"}), Opt(In(Colons)), Star(Sp), Cap(1, Pair)>>),
     Cat(<<Lit(WeiHao), Star(Sp), Cap(1, Pair)>>),
     Cat(<<Cap(1, Pair), Star(Sp), Lit(XianXing)>>),
     Cat(<<Cap(1, Pair), Star(Sp), Lit(WeiHao)>>),
     Cat(<<Cap(1, Out(Digits)), Cap(2, Pair), Cap(3, Out(Digits))>>),
     Cap(1, Pair),
     Cat(<<In({"NUMTAG"}), Cap(1, Plus(In(Digits \cup {"he"}))), In({"ENDDIV"})>>),
     Cat(<<Lit(XianXing), Pair, In({"hao"})>>),
     Cat(<<Lit(WeiHao), Lit(XianXing), Pair>>),
     Cat(<<Lit(XianXing), Opt(In({"colonF"})), Pair>>),
     Cat(<<Lit(XianHao), Opt(In({"colonF"})), Pair>>),
     Cat(<<Pair, In({"hao"}), Lit(XianXing)>>),
     Cat(<<In({"xian"}), Pair>>),
     Cat(<<In({"wei2", "shi"}), Pair>>),
     Cat(<<Lit(XianXing), Plus(D), In({"hao"})>>),
     Cat(<<Lit(XianXing), DunList, In({"hao"})>>),
     Cat(<<Lit(WeiHao), Lit(XianXing), DunList>>),
     Cat(<<Lit(WeiHao), DunList, Lit(XianXing)>>),
     Cat(<<Lit(XianXing), Opt(In({"colonF"})), DunList>>),
     Cat(<<Lit(XianHao), Opt(In({"colonF"})), DunList>>),
     Cat(<<Lit(WeiHao), In(Colons), Star(Cat(<<Plus(D), In({"dun"})>>)), Plus(D)>>),
     Cat(<<DunList, In({"hao"}), Lit(XianXing)>>),
     Cat(<<Plus(D), Star(Cat(<<In({","}), Plus(D)>>)), In({"hao"}), Lit(XianXing)>>),
     Cat(<<In({"xian"}), DunList>>),
     Cat(<<In({"wei2", "shi"}), DunList>>) >>

numberPatterns(W) == numberPatternsAnchored(W) \o numberPatternsGeneric

oddEvenPatterns ==
  << Cat(<<In({"dan"}), In({"hao"}), Lit(XianXing)>>),
     Cat(<<In({"shuang"}), In({"hao"}), Lit(XianXing)>>),
     Cat(<<In({"dan"}), In({"shuang"}), In({"hao"}), Lit(XianXing)>>),
     Cat(<<In({"dan"}), In({"hao"}), Star(Sp), In({"he", "yu"}), Star(Sp),
           In({"shuang"}), In({"hao"})>>),
     Cat(<<In({"xian"}), Star(Sp), In({"dan"}), Star(Sp), In({"shuang"}), Star(Sp),
           In({"hao"})>>) >>

isWeekend(todayIndex) == todayIndex = 0 \/ todayIndex = 6

\* a variant of isWeekendNoLimit without the default for unlisted cities
isWeekendNoLimitListedOnly(city) ==
  IF city \in DOMAIN CITY_WEEKEND_RULES THEN CITY_WEEKEND_RULES[city] ELSE FALSE

isWeekendNoLimit(city) ==
  IF city \in DOMAIN CITY_WEEKEND_RULES THEN CITY_WEEKEND_RULES[city] ELSE TRUE

\* the length of the context cut out after a time phrase
TimeContextLen == 100
\* the context looked at on each side of the op_limited_num tag
TagContextLen == 100

Min(a, b) == IF a < b THEN a ELSE b
Max(a, b) == IF a > b THEN a ELSE b
\* text.substring(b, e) with 0-based b, e as JavaScript counts them
Substring(s, b, e) == SubSeq(s, b + 1, e)

weekendTimePatterns ==
  << Cat(<<Lit(XianXing), In({"shi2"}), In({"jian"}), Opt(In(Colons)), Star(Sp)>>),
     Cat(<<Lit(XianXing), In({"shi2"}), In({"duan"}), Opt(In(Colons)), Star(Sp)>>),
     Cat(<<Lit(XianXing), In({"shi2"}), In({"duan"}), In({"wei2"}), Opt(In(Colons)), Star(Sp)>>),
     Cat(<<Lit(XianXing), In({"shi2"}), In({"jian"}), In({"duan"}), Opt(In(Colons)), Star(Sp)>>),
     Cat(<<Clock, Star(Sp), In({"-", "endash"}), Star(Sp), Clock>>),
     Cat(<<Clock, Star(Sp), In({"zhi"}), Star(Sp), Clock>>),
     Cat(<<D12, Star(Sp), In({"dian"}), Star(Sp), In({"zhi"}), Star(Sp), D12, Star(Sp),
           In({"dian"})>>),
     Cat(<<D12, Star(Sp), In({"shi2"}), Star(Sp), In({"zhi"}), Star(Sp), D12, Star(Sp),
           In({"shi2"})>>) >>

\* /\d{1,2}(?::\d{1,2})?\s*[-–至到]\s*\d{1,2}(?::\d{1,2})?/
specificTimePattern ==
  Cat(<<D12, Opt(Cat(<<In({":"}), D12>>)), Star(Sp), In({"-", "endash", "zhi", "dao"}),
        Star(Sp), D12, Opt(Cat(<<In({":"}), D12>>))>>)

RECURSIVE StripTags(_)
\* s.replace(/<[^>]*>/g, '')
StripTags(s) ==
  LET m == Match(Cat(<<In({"<"}), Star(Out({">"})), In({">"})>>), s)
  IN IF ~m.ok THEN s
     ELSE SubSeq(s, 1, m.b - 1) \o StripTags(SubSeq(s, m.e, Len(s)))

RECURSIVE SquashSpaces(_)
\* s.replace(/\s+/g, ' ')
SquashSpaces(s) ==
  IF s = <<>> THEN <<>>
  ELSE IF s[1] \in Spaces
       THEN <<" ">> \o SquashSpaces(TrimLeft(s))
       ELSE <<s[1]>> \o SquashSpaces(Tail(s))

RECURSIVE weekendTimeInfo(_, _)
\* the loop over timePatterns of the weekend shortcut, from pattern i on
weekendTimeInfo(text, i) ==
  IF i > Len(weekendTimePatterns) THEN <<>>
  ELSE LET timeMatches == MatchAll(weekendTimePatterns[i], text)
           timeStartPos == IndexOf(text, timeMatches[1]) - 1
           timeContext == Substring(text, timeStartPos,
                                    Min(Len(text), timeStartPos + TimeContextLen))
           cleanTimeContext == Trim(SquashSpaces(StripTags(timeContext)))
           specificTimeMatches == Match(specificTimePattern, cleanTimeContext)
       IN IF timeMatches # <<>> /\ timeStartPos # -1 /\ specificTimeMatches.ok
          THEN Whole(cleanTimeContext, specificTimeMatches)
          ELSE weekendTimeInfo(text, i + 1)

\* `${limitNumbers} (工作日${timeInfo})`
weekendResult(timeInfo) ==
  IF timeInfo # <<>>
  THEN BuXianXing \o <<" ", "(">> \o GongZuoRi \o timeInfo \o <<")">>
  ELSE BuXianXing

\* stage 1: the Baidu op_limited_num tag; gives [limitNumbers, timeInfo]
opLimitedStage(text, todayWeekDay) ==
  LET numStartTag == <<"CLASSQ", "NUMTAG">>
      numStartPos == IndexOf(text, numStartTag) - 1
      numEndTag == <<"ENDDIV">>
      numEndPos == IndexOfFrom(text, numEndTag, numStartPos + Len(numStartTag) + 1) - 1
      extracted == Trim(Substring(text, numStartPos + Len(numStartTag), numEndPos))
      context == Substring(text, Max(0, numStartPos - TagContextLen),
                           Min(Len(text), numEndPos + TagContextLen))
      timeStartTag == <<"CLASSQ", "TIMETAG">>
      timeStartPos == IndexOf(text, timeStartTag) - 1
      timeEndPos == IndexOfFrom(text, numEndTag, timeStartPos + Len(timeStartTag) + 1) - 1
  IN IF numStartPos = -1 \/ numEndPos = -1
     THEN [limitNumbers |-> NotFound, timeInfo |-> <<>>]
     ELSE IF ~(Includes(context, JinRi) \/ Includes(context, <<"TODAY">>)
               \/ Includes(context, todayWeekDay))
     THEN [limitNumbers |-> NotFound, timeInfo |-> <<>>]
     ELSE IF timeStartPos # -1 /\ timeEndPos # -1
     THEN [limitNumbers |-> extracted,
           timeInfo |-> Trim(Substring(text, timeStartPos + Len(timeStartTag), timeEndPos))]
     ELSE [limitNumbers |-> extracted, timeInfo |-> <<>>]

\* the name put into the pattern about tomorrow, from Date.getDay() of today
tomorrowWeekDay(todayIndex) == At0(WEEK_DAYS, (todayIndex + 1) % 7)

\* stage 2: the not-restricted patterns, in the order of the array
noLimitPatterns(city, todayIndex, W) ==
  << Cat(<<Lit(JinRi), Star(LitS), Lit(W), Star(LitS),
           Alt(<<Lit(XianXing), Lit(XianHao)>>), Opt(Lit(WeiHao)), Opt(In(Colons)),
           Star(LitS), NoLimitGroup(1)>>),
     Cat(<<Lit(JinRi), Star(LitS), NoLimitGroup(1)>>),
     Cat(<<Lit(W), Star(LitS), NoLimitGroup(1)>>),
     Cat(<<Lit(city), Star(LitS), Lit(JinRi), Star(LitS), NoLimitGroup(1)>>),
     Cat(<<Lit(<<"ming", "ri">>), Lit(XianXing), Lit(WeiHao),
           Cap(1, Lit(tomorrowWeekDay(todayIndex))),
           Star(In(Colons)), Star(LitS), NoLimitGroup(2)>>),
     Cat(<<Lit(city), Star(LitS), Lit(W), Star(LitS), BuXianXingOpt>>),
     Cat(<<Lit(W), Star(LitS), Opt(In(Colons)), Star(LitS), BuXianXingOpt>>),
     Cat(<<Lit(W), Plus(LitS), Lit(BuXian)>>),
     Cat(<<Lit(<<"ben", "zhou">>), Lit(W), Plus(LitS), BuXianXingOpt>>),
     Cat(<<Alt(<<Lit(JieJiaRi), Lit(FaDingJieJiaRi)>>), Star(LitS), Lit(ChuWai)>>),
     Cat(<<Alt(<<Lit(JieJiaRi), Lit(FaDingJieJiaRi)>>), Star(LitS), Lit(BuXianXing)>>) >>

\* how many capture groups each of noLimitPatterns has: match.length - 1
noLimitGroups == <<1, 1, 1, 1, 2, 0, 0, 0, 0, 0, 0>>

\* a variant of isHolidayException that never recognises the clause
noHolidayException(matched) == FALSE

\* the guard on a match without capture group: is it a holiday exception
isHolidayException(matched) ==
  Includes(matched, JieJiaRi \o ChuWai) \/ Includes(matched, FaDingJieJiaRi \o ChuWai)

RECURSIVE noLimitLoop(_, _, _, _)
\* the loop over noLimitPatterns from pattern i on; gives limitNumbers
noLimitLoop(pats, text, i, limitNumbers) ==
  IF i > Len(pats) THEN limitNumbers
  ELSE LET noLimitMatch == Match(pats[i], text)
       IN IF noLimitMatch.ok /\ noLimitGroups[i] + 1 > 1
          THEN Trim(Group(text, noLimitMatch, 1))
          ELSE IF noLimitMatch.ok /\ noLimitGroups[i] + 1 = 1
          THEN IF isHolidayException(Whole(text, noLimitMatch))
               THEN noLimitLoop(pats, text, i + 1, limitNumbers)
               ELSE BuXianXing
          ELSE noLimitLoop(pats, text, i + 1, limitNumbers)

noLimitStage(city, todayIndex, text, limitNumbers) ==
  noLimitLoop(noLimitPatterns(city, todayIndex, todayWeekDayOf(todayIndex)), text, 1,
              limitNumbers)

\* stage 3a: the week's rule on the page, for 北京 only
beijingWeeklyPatterns ==
  LET List == Cap(1, Plus(In(Digits \cup {"he", "dun", "commaF", ","})))
      Nums(n) == Cap(n, Plus(In(Digits \cup {"he"})))
      XingQiYiZhiWu == <<"xing1", "qi", "yi", "zhi", "xing1", "qi", "wu">>
      ZhouYiZhiWu == <<"zhou", "yi", "zhi", "zhou", "wu">>
      CarPlate == <<"ji", "dong", "che", "che", "pai">>
      Five == <<Lit(<<"zhou", "yi">>), Nums(1), LazyStar(Dot),
                Lit(<<"zhou", "er">>), Nums(2), LazyStar(Dot),
                Lit(<<"zhou", "san">>), Nums(3), LazyStar(Dot),
                Lit(<<"zhou", "si">>), Nums(4), LazyStar(Dot),
                Lit(<<"zhou", "wu">>), Nums(5)>>
  IN << Cat(<<Lit(XingQiYiZhiWu), Lit(XianXing), Lit(CarPlate), Lit(WeiHao),
              Lit(FenBieWei), List>>),
        Cat(<<Lit(ZhouYiZhiWu), Lit(XianXing), Lit(WeiHao), In({"colonF"}), List>>),
        Cat(<<Lit(XingQiYiZhiWu), Lit(XianXing), Lit(WeiHao),
              Lit(<<"fen", "bie", "wei2">>), List>>),
        Cat(<<Lit(ZhouYiZhiWu), Lit(XianXing), Lit(CarPlate), Lit(WeiHao),
              Lit(<<"fen", "bie", "wei2">>), List>>),
        Cat(<<Lit(<<"ben", "zhou">>), Lit(WeiHao), Lit(XianXing), LazyStar(AnyCh)>>
            \o Five),
        Cat(Five) >>

\* match.length - 1 of each of them
beijingWeeklyGroups == <<1, 1, 1, 1, 5, 5>>

\* /^\d{1,2}$/.test(s)
isOneOrTwoDigits(s) == Len(s) \in {1, 2} /\ \A k \in 1..Len(s) : s[k] \in Digits

SplitSeps == {"dun", "commaF", ",", " ", "nl"}
\* the characters removed from the week's rule text: 。，,）（
RuleNoise == {"stopF", "commaF", ",", "rparF", "lparF"}
\* the characters removed from one day's entry: 。，,)（
DayNoise == {"stopF", "commaF", ",", ")", "lparF"}

RECURSIVE beijingLoop(_, _, _, _)
\* the loop over weeklyPatterns from pattern i on; gives [limitNumbers, hasFound]
beijingLoop(text, todayIndex, i, limitNumbers) ==
  IF i > Len(beijingWeeklyPatterns) THEN [limitNumbers |-> limitNumbers, hasFound |-> FALSE]
  ELSE LET weeklyMatch == Match(beijingWeeklyPatterns[i], text)
           trimmed == Trim(Remove(Group(text, weeklyMatch, 1), RuleNoise))
           weekNumbersText == IF EndsWith(trimmed, <<"semiF">>)
                              THEN SubSeq(trimmed, 1, Len(trimmed) - 1)
                              ELSE trimmed
           workday == todayIndex >= 1 /\ todayIndex <= 5
           dayLimit == Trim(Remove(Group(text, weeklyMatch, todayIndex), DayNoise))
           weekNumbers == SelectSeq(Split(weekNumbersText, SplitSeps),
                             LAMBDA item : item # <<>> /\ (Includes(item, <<"he">>)
                                               \/ Len(item) >= 2
                                               \/ Includes(item, BuXian)))
           picked == At0(weekNumbers, todayIndex - 1)
       IN IF ~(weeklyMatch.ok /\ beijingWeeklyGroups[i] + 1 > 1)
          THEN beijingLoop(text, todayIndex, i + 1, limitNumbers)
          ELSE IF beijingWeeklyGroups[i] + 1 > 5 /\ workday
          THEN [limitNumbers |->
                  IF dayLimit = BuXian \/ dayLimit = BuXianXing THEN dayLimit
                  ELSE IF Includes(dayLimit, <<"he">>) \/ isOneOrTwoDigits(dayLimit)
                  THEN dayLimit
                  ELSE limitNumbers,
                hasFound |-> TRUE]
          ELSE IF Len(weekNumbers) >= 5 /\ workday
          THEN IF Includes(picked, <<"he">>) \/ Includes(picked, BuXian)
               THEN [limitNumbers |-> picked, hasFound |-> TRUE]
               ELSE beijingLoop(text, todayIndex, i + 1, picked)
          ELSE beijingLoop(text, todayIndex, i + 1, limitNumbers)

\* stage 3b: the sentence about today, `今日\s*${todayWeekDay}\s*(?:限行|限号)...`
todayFullSentencePattern(W) ==
  Cat(<<Lit(JinRi), Star(LitS), Lit(W), Star(LitS),
        Alt(<<Lit(XianXing), Lit(XianHao)>>), Opt(Lit(WeiHao)), Opt(In(Colons)), Star(LitS),
        Cap(1, Alt(<<Cat(<<Plus(LitD), In({"he"}), Plus(LitD)>>),
                     Lit(BuXianXing), Lit(BuXian)>>))>>)

\* the longest numberPart accepted as a match
MaxNumberPart == 10

RECURSIVE bestOfMatches(_, _, _)
\* the loop over one pattern's matches from match j on; gives bestMatch
bestOfMatches(numberMatches, j, bestMatch) ==
  IF j > Len(numberMatches) THEN bestMatch
  ELSE LET numberPart == Trim(Keep(numberMatches[j], Digits \cup {"he", "dun"}))
       IN IF numberPart # <<>> /\ Includes(numberPart, <<"he">>)
             /\ Len(numberPart) <= MaxNumberPart
          THEN numberPart
          ELSE IF numberPart # <<>> /\ Len(numberPart) > 0
                  /\ Len(numberPart) <= MaxNumberPart /\ bestMatch = <<>>
          THEN bestOfMatches(numberMatches, j + 1, numberPart)
          ELSE bestOfMatches(numberMatches, j + 1, bestMatch)

RECURSIVE numberLoop(_, _, _)
\* the loop over numberPatterns from pattern i on; gives bestMatch
numberLoop(pats, text, i) ==
  IF i > Len(pats) THEN <<>>
  ELSE LET bestMatch == bestOfMatches(MatchAll(pats[i], text), 1, <<>>)
       IN IF bestMatch # <<>> THEN bestMatch ELSE numberLoop(pats, text, i + 1)

RECURSIVE oddEvenLoop(_, _)
oddEvenLoop(text, i) ==
  IF i > Len(oddEvenPatterns) THEN <<>>
  ELSE LET oddEvenMatches == MatchAll(oddEvenPatterns[i], text)
       IN IF oddEvenMatches # <<>> THEN oddEvenMatches[1] ELSE oddEvenLoop(text, i + 1)

isBeijing(city) == city = BeiJing \/ city = BeiJingShi

\* the full-sentence step: taken when nothing was found before it
sentenceStep(before, text, fullSentenceMatch) ==
  IF ~before.hasFound /\ fullSentenceMatch.ok
  THEN [limitNumbers |-> Trim(Group(text, fullSentenceMatch, 1)), hasFound |-> TRUE]
  ELSE before

\* the number-pattern step and the odd/even step: taken when nothing was
\* found before them and the loop has a match
matchStep(before, bestMatch) ==
  IF ~before.hasFound /\ bestMatch # <<>>
  THEN [limitNumbers |-> bestMatch, hasFound |-> TRUE]
  ELSE before

\* the week's rule, for Beijing only
beijingStep(city, todayIndex, text, limitNumbers) ==
  IF isBeijing(city)
  THEN beijingLoop(text, todayIndex, 1, limitNumbers)
  ELSE [limitNumbers |-> limitNumbers, hasFound |-> FALSE]

\* stage 3: the block guarded by limitNumbers being unset; gives
\* [limitNumbers, hasFound]
numberStage(city, todayIndex, text, limitNumbers) ==
  IF (limitNumbers = NotFound \/ limitNumbers = <<>>) /\ limitNumbers # BuXianXing
  THEN matchStep(
         matchStep(
           sentenceStep(beijingStep(city, todayIndex, text, limitNumbers), text,
                        Match(todayFullSentencePattern(todayWeekDayOf(todayIndex)), text)),
           numberLoop(numberPatterns(todayWeekDayOf(todayIndex)), text, 1)),
         oddEvenLoop(text, 1))
  ELSE [limitNumbers |-> limitNumbers, hasFound |-> FALSE]

\* stage 4: the common formats of today
todayPatterns(city, W) ==
  LET Value == Cap(1, Alt(<<Cat(<<Plus(LitD), Star(Cat(<<In({"he"}), Plus(LitD)>>))>>),
                            Lit(BuXianXing), Lit(BuXian)>>))
  IN << Cat(<<Lit(W), Star(LitS), Lit(XianXing), Lit(WeiHao), Opt(In(Colons)), Star(LitS),
              Value>>),
        Cat(<<Lit(W), Star(LitS), Lit(XianHao), Opt(In(Colons)), Star(LitS), Value>>),
        Cat(<<Lit(JinRi), Star(LitS), Lit(XianXing), Lit(WeiHao), Opt(In(Colons)),
              Star(LitS), Value>>),
        Cat(<<Lit(JinRi), Star(LitS), Lit(XianHao), Opt(In(Colons)), Star(LitS), Value>>),
        Cat(<<Lit(city), Star(LitS), Lit(W), Star(LitS), Lit(XianXing), Opt(In(Colons)),
              Star(LitS), Value>>) >>

RECURSIVE todayLoop(_, _, _, _)
todayLoop(pats, text, i, limitNumbers) ==
  IF i > Len(pats) THEN limitNumbers
  ELSE LET match == Match(pats[i], text)
       IN IF match.ok THEN Trim(Group(text, match, 1))
          ELSE todayLoop(pats, text, i + 1, limitNumbers)

todayStage(city, todayIndex, text, limitNumbers) ==
  IF limitNumbers = NotFound \/ limitNumbers = <<>>
  THEN todayLoop(todayPatterns(city, todayWeekDayOf(todayIndex)), text, 1, limitNumbers)
  ELSE limitNumbers

\* a variant of failureStage that lets an empty value through
failureStageUnlessEmpty(limitNumbers) ==
  IF limitNumbers = NotFound THEN Failed ELSE limitNumbers

\* the failure value, when every method has left limitNumbers unset
failureStage(limitNumbers) ==
  IF limitNumbers = NotFound \/ limitNumbers = <<>> THEN Failed ELSE limitNumbers

\* stage 5: the restriction hours
timePatterns ==
  LET Range == Cat(<<Clock, Star(Sp), In({"-", "endash", "zhi"}), Star(Sp), Clock>>)
  IN << Cat(<<Lit(XianXing), In({"shi2"}), In({"jian"}), Opt(In(Colons)), Star(Sp),
              Cap(1, Range)>>),
        Cat(<<Lit(XianXing), In({"shi2"}), In({"duan"}), Opt(In(Colons)), Star(Sp),
              Cap(1, Range)>>),
        Cat(<<Range, Star(Sp), Lit(XianXing)>>) >>

timeGroups == <<1, 1, 0>>

RECURSIVE timeLoop(_, _)
timeLoop(text, i) ==
  IF i > Len(timePatterns) THEN <<>>
  ELSE LET match == Match(timePatterns[i], text)
       IN IF match.ok
          THEN Trim(IF timeGroups[i] + 1 > 1 THEN Group(text, match, 1) ELSE Whole(text, match))
          ELSE timeLoop(text, i + 1)

timeStage(text, timeInfo) == IF timeInfo = <<>> THEN timeLoop(text, 1) ELSE timeInfo

\* `${limitNumbers} (${timeInfo})`
withTime(limitNumbers, timeInfo) == limitNumbers \o <<" ", "(">> \o timeInfo \o <<")">>

finalResultOf(limitNumbers, timeInfo) ==
  IF timeInfo # <<>> /\ limitNumbers # BuXianXing
  THEN withTime(limitNumbers, timeInfo)
  ELSE limitNumbers

\* the extraction of fetchLimitNumbersFromNetwork on a valid page, from the
\* weekend rule to finalResult.  shortcut: the function returned from the
\* weekend branch, before the cache is read or written
weekendOutcome(timeInfo) ==
  [shortcut |-> TRUE, limitNumbers |-> BuXianXing, timeInfo |-> timeInfo,
   finalResult |-> weekendResult(timeInfo), hasFound |-> FALSE]

dailyOutcome(limitNumbers, timeInfo, hasFound) ==
  [shortcut |-> FALSE, limitNumbers |-> limitNumbers, timeInfo |-> timeInfo,
   finalResult |-> finalResultOf(limitNumbers, timeInfo), hasFound |-> hasFound]

\* stages 4 and 5 and the time stage, after stage 3 gave s3
afterNumberStage(city, todayIndex, text, s3, timeInfo) ==
  dailyOutcome(failureStage(todayStage(city, todayIndex, text, s3.limitNumbers)),
               timeInfo, s3.hasFound)

\* stages 2 to 5 and the time stage, after the op_limited_num stage gave s1
afterTagStage(city, todayIndex, text, s1) ==
  afterNumberStage(city, todayIndex, text,
                   numberStage(city, todayIndex, text,
                               noLimitStage(city, todayIndex, text, s1.limitNumbers)),
                   timeStage(text, s1.timeInfo))

extractDaily(city, todayIndex, text) ==
  IF isWeekend(todayIndex) /\ isWeekendNoLimit(city)
  THEN weekendOutcome(weekendTimeInfo(text, 1))
  ELSE afterTagStage(city, todayIndex, text,
                     opLimitedStage(text, todayWeekDayOf(todayIndex)))

\* Which methods of the cascade were tried on the way to the outcome: the
\* guards of the code, read with what each method left behind.
\* b, s and n: [limitNumbers, hasFound] after the week's rule, after the
\* sentence about today and after the number patterns
triedInBlock(city, b, s, n) ==
  (IF isBeijing(city) THEN {"table"} ELSE {})
  \cup (IF ~b.hasFound THEN {"sentence"} ELSE {})
  \cup (IF ~s.hasFound THEN {"numbers"} ELSE {})
  \cup (IF ~n.hasFound THEN {"oddEven"} ELSE {})

triedFromSentence(city, text, W, b, s) ==
  triedInBlock(city, b, s, matchStep(s, numberLoop(numberPatterns(W), text, 1)))

triedFromTable(city, text, W, b) ==
  triedFromSentence(city, text, W, b,
                    sentenceStep(b, text, Match(todayFullSentencePattern(W), text)))

triedInNumberStage(city, todayIndex, text, limitNumbers) ==
  IF (limitNumbers = NotFound \/ limitNumbers = <<>>) /\ limitNumbers # BuXianXing
  THEN triedFromTable(city, text, todayWeekDayOf(todayIndex),
                      beijingStep(city, todayIndex, text, limitNumbers))
  ELSE {}

triedFromNumberStage(city, todayIndex, text, limitNumbers, s3) ==
  {"tag", "noLimit"}
  \cup triedInNumberStage(city, todayIndex, text, limitNumbers)
  \cup (IF s3.limitNumbers = NotFound \/ s3.limitNumbers = <<>> THEN {"today"} ELSE {})

triedFromNoLimit(city, todayIndex, text, limitNumbers) ==
  triedFromNumberStage(city, todayIndex, text, limitNumbers,
                       numberStage(city, todayIndex, text, limitNumbers))

strategiesTried(city, todayIndex, text) ==
  IF isWeekend(todayIndex) /\ isWeekendNoLimit(city)
  THEN {"weekend"}
  ELSE triedFromNoLimit(city, todayIndex, text,
                        noLimitStage(city, todayIndex, text,
                                     opLimitedStage(text, todayWeekDayOf(todayIndex)).limitNumbers))

(***************************************************************************)
(* fetchWeeklyLimitNumbersFromNetwork: the weekly extraction               *)
(***************************************************************************)
\* a Record<string, string>: a function from its keys
EmptyMap == [k \in {} |-> <<>>]
Put(m, k, v) == [d \in DOMAIN m \cup {k} |-> IF d = k THEN v ELSE m[d]]
Keys(m) == DOMAIN m
Has(m, k) == k \in DOMAIN m /\ m[k] # <<>>

\* weeklyLimitInfo['周一'] = a[0]; ... weeklyLimitInfo['周五'] = a[4]
PutWorkdays(m, a) ==
  Put(Put(Put(Put(Put(m, WEEK_DAYS[1], a[1]), WEEK_DAYS[2], a[2]), WEEK_DAYS[3], a[3]),
          WEEK_DAYS[4], a[4]), WEEK_DAYS[5], a[5])

weeklyPatterns ==
  LET List == Plus(In(Digits \cup {"he", "dun", "commaF", ","}))
      Intro == Lit(<<"xing1", "qi", "yi", "zhi", "xing1", "qi", "wu">> \o XianXing
                   \o <<"ji", "dong", "che", "che", "pai">> \o WeiHao \o FenBieWei)
      Day(n, sep) == <<Lit(WEEK_DAYS[n]), Lit(XianXing), Lit(WeiHao), In(Colons),
                       Cap(n, Pair)>> \o (IF n < 5 THEN <<sep>> ELSE <<>>)
      Days(sep) == Cat(Day(1, sep) \o Day(2, sep) \o Day(3, sep) \o Day(4, sep)
                       \o Day(5, sep))
  IN << Cat(<<Intro, Cap(1, List), Alt(<<In({"stopF", "rparF"}), Eol>>)>>),
        Cat(<<Lit(<<"zhou", "yi", "zhi", "zhou", "wu">>), Lit(XianXing), Lit(WeiHao),
              In({"colonF"}), Cap(1, List)>>),
        Cat(<<Lit(WeiHao), Lit(XianXing), In({"gui"}), In({"ze"}), In({"colonF"}),
              Cap(1, Plus(In(Digits \cup {"he", "dun", "commaF", ",", " ", "nl",
                                          "yi", "er", "san", "si", "wu"})))>>),
        Days(Star(Sp)),
        Cat(<<Intro, Cap(1, List), In({"lparF"})>>),
        Days(In({",", "commaF"})) >>

\* match.length of each of them
weeklyMatchLength == <<2, 2, 2, 6, 2, 6>>

\* the list items kept by the filter: item && (item.includes('和') || item.length >= 2)
keptItems(s) ==
  SelectSeq(Split(s, SplitSeps),
            LAMBDA item : item # <<>> /\ (Includes(item, <<"he">>) \/ Len(item) >= 2))

RECURSIVE weekdayEntries(_, _, _)
\* the loop over weekdayPatterns (周一 .. 周五) from day n on
weekdayEntries(tailNumbersText, n, m) ==
  IF n > 5 THEN m
  ELSE LET dayMatch == Match(Cat(<<Lit(WEEK_DAYS[n]), Opt(In(Colons)), Star(Sp),
                                   Cap(1, Plus(In(Digits \cup {"he"})))>>),
                             tailNumbersText)
       IN weekdayEntries(tailNumbersText, n + 1,
            IF dayMatch.ok THEN Put(m, WEEK_DAYS[n], Trim(Group(tailNumbersText, dayMatch, 1)))
            ELSE m)

\* the body of the pattern loop for one matching pattern
weeklyFromMatch(text, i, match, m) ==
  LET groups == [n \in 1..5 |-> Group(text, match, n)]
      tailNumbersText == Trim(Remove(Group(text, match, 1), DayNoise))
      tailNumbersArray == keptItems(tailNumbersText)
      startIndex == IndexOf(tailNumbersText, FenBieWei) - 1 + 4
      cleanText == Trim(Remove(Substring(tailNumbersText, startIndex, Len(tailNumbersText)),
                               DayNoise))
      cleanNumbersArray == keptItems(cleanText)
  IN IF weeklyMatchLength[i] >= 6 THEN PutWorkdays(m, groups)
     ELSE IF Includes(tailNumbersText, <<"zhou", "yi">>)
             \/ Includes(tailNumbersText, <<"xing1", "qi", "er">>)
     THEN weekdayEntries(tailNumbersText, 1, m)
     ELSE IF Len(tailNumbersArray) >= 5 THEN PutWorkdays(m, tailNumbersArray)
     ELSE IF Includes(tailNumbersText, FenBieWei) /\ Len(cleanNumbersArray) >= 5
     THEN PutWorkdays(m, cleanNumbersArray)
     ELSE m

\* the number of entries that makes a week's rule
MinWeeklyKeys == 5

RECURSIVE weeklyPatternLoop(_, _, _)
\* the loop over weeklyPatterns from pattern i on; gives weeklyLimitInfo
weeklyPatternLoop(text, i, m) ==
  IF i > Len(weeklyPatterns) THEN m
  ELSE LET match == Match(weeklyPatterns[i], text)
           next == IF match.ok THEN weeklyFromMatch(text, i, match, m) ELSE m
       IN IF match.ok /\ Cardinality(Keys(next)) >= MinWeeklyKeys THEN next
          ELSE weeklyPatternLoop(text, i + 1, next)

RECURSIVE firstEnd(_, _, _)
\* the loop over possibleEndChars: the smallest positive index of one of them
firstEnd(tailInfo, chars, endIndex) ==
  IF chars = <<>> THEN endIndex
  ELSE LET index == IndexOf(tailInfo, <<Head(chars)>>) - 1
       IN firstEnd(tailInfo, Tail(chars),
                   IF index > 0 /\ index < endIndex THEN index ELSE endIndex)

possibleEndChars == <<".", "stopF", "semiF", ";", "commaF", ",", "nl">>
Parens == {"lparF", "rparF", "(", ")"}

\* /^\d+[和\d]*$/.test(item)
isNumberItem(item) ==
  item # <<>> /\ item[1] \in Digits /\ \A k \in 1..Len(item) : item[k] \in Digits \cup {"he"}

\* the length of text scanned after a keyword
KeywordWindow == 200

keywords == <<XianXing \o WeiHao, WeiHao \o XianXing, <<"xian", "hao", "gui", "ze">> >>

RECURSIVE keywordLoop(_, _, _)
\* the loop over keywords from keyword i on; gives [m, found]
keywordLoop(text, i, m) ==
  IF i > Len(keywords) THEN [m |-> m, found |-> FALSE]
  ELSE LET startIndex == IndexOf(text, keywords[i]) - 1
           tailInfo == Trim(Remove(Substring(text, startIndex + Len(keywords[i]),
                                             Min(Len(text), startIndex + KeywordWindow)),
                                   Parens))
           numberPairs == MatchAll(Pair, tailInfo)
       IN IF startIndex > -1 /\ Len(numberPairs) >= 5
          THEN [m |-> PutWorkdays(m, numberPairs), found |-> TRUE]
          ELSE keywordLoop(text, i + 1, m)

\* the direct extraction tried when no pattern gave a week's rule
directExtraction(text, m) ==
  LET startIndex == IndexOf(text, FenBieWei) - 1
      raw == Trim(Remove(Substring(text, startIndex + 4, Len(text)), Parens))
      endIndex == firstEnd(raw, possibleEndChars, Len(raw))
      tailInfo == IF endIndex > 0 THEN Trim(Substring(raw, 0, endIndex)) ELSE raw
      dailyLimits == SelectSeq(Split(tailInfo, SplitSeps),
                       LAMBDA item : item # <<>> /\ (Includes(item, <<"he">>)
                                         \/ (Len(item) >= 2 /\ isNumberItem(item))))
  IN IF startIndex > -1
     THEN IF Len(dailyLimits) >= 5
          THEN [m |-> PutWorkdays(m, dailyLimits), found |-> TRUE]
          ELSE [m |-> m, found |-> FALSE]
     ELSE keywordLoop(text, 1, m)

\* a variant of withWeekend that leaves the weekend slots out
withoutWeekend(direct) == direct.m

\* the weekend slots, added when the workdays were found
withWeekend(direct) ==
  IF direct.found
  THEN Put(Put(direct.m, WEEK_DAYS[6], BuXianXing), WEEK_DAYS[7], BuXianXing)
  ELSE direct.m

\* the direct extraction, tried when the patterns left the map short
afterPatterns(text, byPattern) ==
  IF Cardinality(Keys(byPattern)) >= MinWeeklyKeys
  THEN [m |-> byPattern, found |-> TRUE]
  ELSE directExtraction(text, byPattern)

\* the extraction of fetchWeeklyLimitNumbersFromNetwork on the text of a page
extractWeekly(text) ==
  withWeekend(afterPatterns(text, weeklyPatternLoop(text, 1, EmptyMap)))

(***************************************************************************)
(* Pages and responses of the network                                      *)
(***************************************************************************)
\* A page body is [text, pad]: text is the part the patterns can see and
\* pad the length of further markup that matches none of them, so that
\* body.length = Len(text) + pad.
Length(page) == Len(page.text) + page.pad

\* a body shorter than this with a redirect marker is an interstitial page
RedirectMaxLen == 1000
\* a body shorter than this is not a result page
MinContentLen == 100
\* the number of rounds of the retry loop
maxRetries == 2

\* the URLs of a page fetch: the site and path, the search words and the
\* further parameters
buildSearchUrl(city) ==
  [site |-> "https://m.baidu.com/s?word=", words |-> city \o XianHao,
   params |-> "&from=1000953h"]
alternativeUrl1(city) ==
  [site |-> "https://www.baidu.com/s?wd=", words |-> city \o XianHao,
   params |-> "&tn=02003390_42_hao_pg"]
alternativeUrl2(city) ==
  [site |-> "https://www.baidu.com/s?wd=", words |-> city \o XianXing,
   params |-> "&rn=10"]

\* a variant of isRedirectPage that looks for the marker alone
isRedirectPageAnyLength(page) ==
  Includes(page.text, <<"LOCREPLACE">>) \/ Includes(page.text, <<"METAREFRESH">>)

\* text.length < 1000 && (text.includes('location.replace') || ...)
isRedirectPage(page) ==
  Length(page) < RedirectMaxLen
  /\ (Includes(page.text, <<"LOCREPLACE">>) \/ Includes(page.text, <<"METAREFRESH">>))

\* text.length < 100 || isStillRedirect
isInvalidPage(page) == Length(page) < MinContentLen \/ isRedirectPage(page)

W3 == <<"zhou", "san">>
TableIntro ==
  <<"xing1", "qi", "yi", "zhi", "xing1", "qi", "wu">> \o XianXing
  \o <<"ji", "dong", "che", "che", "pai">> \o WeiHao \o FenBieWei
FiveEntries ==
  <<"4", "he", "9", "dun", "5", "he", "0", "dun", "1", "he", "6", "dun",
    "2", "he", "7", "dun", "3", "he", "8">>
FourEntries ==
  <<"4", "he", "9", "dun", "5", "he", "0", "dun", "1", "he", "6", "dun", "2", "he", "7">>
\* the table of the week before, when the tail numbers were one place further
EarlierEntries ==
  <<"3", "he", "8", "dun", "4", "he", "9", "dun", "5", "he", "0", "dun",
    "1", "he", "6", "dun", "2", "he", "7">>
Hours == <<"7", ":", "0", "0", "-", "2", "0", ":", "0", "0">>
AnchoredSentence == JinRi \o W3 \o XianXing \o WeiHao \o <<"colonF", "3", "he", "8">>

\* the bodies the modelled network can serve
PgAnchored == [text |-> <<"x">> \o AnchoredSentence \o <<"x">>, pad |-> 2000]
PgPairFirst ==
  [text |-> <<"x">> \o XianXing \o <<"1", "he", "6", "x">> \o AnchoredSentence \o <<"x">>,
   pad |-> 2000]
OneSix == <<"1", "he", "6">>
PgOneSix == [text |-> <<"x">> \o XianXing \o <<"1", "he", "6", "x">>, pad |-> 2000]
PgTable == [text |-> <<"x">> \o TableIntro \o FiveEntries \o <<"stopF", "x">>, pad |-> 2000]
PgTableEarlier ==
  [text |-> <<"x">> \o TableIntro \o EarlierEntries \o <<"stopF", "x">>, pad |-> 2000]
PgPartial == [text |-> <<"x">> \o TableIntro \o FourEntries \o <<"stopF", "x">>, pad |-> 2000]
PgHoliday == [text |-> <<"x">> \o FaDingJieJiaRi \o ChuWai \o <<"x">>, pad |-> 2000]
PgNoLimit == [text |-> <<"x">> \o JinRi \o BuXianXing \o <<"x">>, pad |-> 2000]
PgHours ==
  [text |-> <<"x">> \o XianXing \o <<"shi2", "jian", "colonF">> \o Hours \o <<"x">>
            \o TableIntro \o FiveEntries \o <<"stopF", "x">>,
   pad |-> 2000]
PgTag ==
  [text |-> <<"x">> \o JinRi \o <<"CLASSQ", "NUMTAG", "2", "he", "7", "ENDDIV", "x">>,
   pad |-> 2000]
\* the tag of today's value, with nothing in it
PgEmptyTag ==
  [text |-> <<"x">> \o JinRi \o <<"CLASSQ", "NUMTAG", "ENDDIV", "x">>, pad |-> 2000]
PgTagNoLimit ==
  [text |-> <<"x">> \o JinRi \o <<"CLASSQ", "NUMTAG", "2", "he", "7", "ENDDIV", "x">>
            \o JinRi \o BuXianXing \o <<"x">>,
   pad |-> 2000]
\* 尾号限行规则：一 4和9，二 5和0
PgRuleTwo ==
  [text |-> <<"x">> \o WeiHao \o XianXing
            \o <<"gui", "ze", "colonF", "yi", " ", "4", "he", "9", "commaF", "er", " ",
                 "5", "he", "0", "x">>,
   pad |-> 2000]
\* 周一限行尾号:4和9 周二限行尾号:5和0 ... 周五限行尾号:3和8
PgDaysList ==
  [text |-> <<"x">>
            \o WEEK_DAYS[1] \o XianXing \o WeiHao \o <<":", "4", "he", "9", " ">>
            \o WEEK_DAYS[2] \o XianXing \o WeiHao \o <<":", "5", "he", "0", " ">>
            \o WEEK_DAYS[3] \o XianXing \o WeiHao \o <<":", "1", "he", "6", " ">>
            \o WEEK_DAYS[4] \o XianXing \o WeiHao \o <<":", "2", "he", "7", " ">>
            \o WEEK_DAYS[5] \o XianXing \o WeiHao \o <<":", "3", "he", "8", "x">>,
   pad |-> 2000]
\* 限号规则 1和6 2和7 3和8 4和9 5和0
PgKeyword ==
  [text |-> <<"x", "xian", "hao", "gui", "ze", " ", "1", "he", "6", " ", "2", "he", "7", " ",
              "3", "he", "8", " ", "4", "he", "9", " ", "5", "he", "0", "x">>,
   pad |-> 2000]
\* the sentence about today, and after it the week's table
PgBoth ==
  [text |-> <<"x">> \o AnchoredSentence \o <<"x">> \o TableIntro \o FiveEntries
            \o <<"stopF", "x">>,
   pad |-> 2000]
\* 周一123 周二4和9 周三5和0 周四1和6 周五2和7: the entry of 周一 has three digits
PgLongEntry ==
  [text |-> <<"x">> \o WEEK_DAYS[1] \o <<"1", "2", "3", "x">>
            \o WEEK_DAYS[2] \o <<"4", "he", "9", "x">>
            \o WEEK_DAYS[3] \o <<"5", "he", "0", "x">>
            \o WEEK_DAYS[4] \o <<"1", "he", "6", "x">>
            \o WEEK_DAYS[5] \o <<"2", "he", "7", "x">>,
   pad |-> 2000]
PgRedirect == [text |-> <<"LOCREPLACE", "x">>, pad |-> 200]
PgLongRedirect == [text |-> <<"METAREFRESH", "x">> \o AnchoredSentence \o <<"x">>, pad |-> 2000]
PgShortRefresh == [text |-> <<"METAREFRESH", "x">>, pad |-> 500]
PgTiny == [text |-> <<"x">> \o AnchoredSentence \o <<"x">>, pad |-> 0]
PgEmpty == [text |-> <<>>, pad |-> 0]

(***************************************************************************)
(* The state                                                               *)
(***************************************************************************)
VARIABLES
  storage,   \* Storage: the value under limitNumbers_<city>, for each city
  now,       \* the clock, in ticks of eight hours since 00:00 UTC of day 0
  tzOffset,  \* the device's time zone: local time = UTC + tzOffset ticks
  overlap,   \* may a script run start while another one is in progress
  runs,      \* the calls in progress: where each one is and what it holds
  done,      \* the call that returned last, with what it returned
  calls,     \* how many calls have been started
  xcity, xday, xpage, xout,  \* an extraction on its own: inputs and result
  cityKeys,  \* Storage: the four keys of getUserCity
  cityNow,   \* Date.now() of the city resolution, in milliseconds
  cityRuns,  \* the getUserCity calls in progress
  cityDone,  \* the getUserCity call that returned last
  cityCalls, \* how many getUserCity calls have been started
  cityFell   \* when the default city was last taken, and what happened since

vars == <<storage, now, tzOffset, overlap, runs, done, calls, xcity, xday, xpage, xout,
          cityKeys, cityNow, cityRuns, cityDone, cityCalls, cityFell>>
cityVars == <<cityKeys, cityNow, cityRuns, cityDone, cityCalls, cityFell>>
serviceVars == <<storage, now, tzOffset, overlap, runs, done, calls>>
extractVars == <<xcity, xday, xpage, xout>>

\* the cities a call can be resolved to
Cities == {BeiJing, ChengDu}
Runs == {1, 2}

(***************************************************************************)
(* Dates                                                                   *)
(***************************************************************************)
TicksPerDay == 3
\* new Date().toISOString().split('T')[0]: the UTC date, as a day number
toISODate(t) == t \div TicksPerDay
\* the local date of an instant
localDate(t, tz) == (t + tz) \div TicksPerDay
\* Date.getDay() of an instant, in local time; day 0 is a Sunday
getDay(t, tz) == localDate(t, tz) % 7
\* new Date(dateString): a date-only string is parsed as 00:00 UTC
parseDate(dateString) == dateString * TicksPerDay

\* a variant of weekDayTextOf that reads Date.getDay() as an index of WEEK_DAYS
weekDayTextByIndex(dayIndex) == At0(WEEK_DAYS, dayIndex)

\* the two returns of getWeekDayText, from Date.getDay()
weekDayTextOf(dayIndex) ==
  IF dayIndex = 0 THEN At0(WEEK_DAYS, 6) ELSE At0(WEEK_DAYS, dayIndex - 1)

getWeekDayText(dateString, tz) == weekDayTextOf(getDay(parseDate(dateString), tz))

(***************************************************************************)
(* The cache entry and the values the two operations return                *)
(***************************************************************************)
Null == [present |-> FALSE, todayData |-> <<>>, weeklyData |-> EmptyMap,
         timestamp |-> 0, date |-> 0]
CacheData(todayData, weeklyData, timestamp, date) ==
  [present |-> TRUE, todayData |-> todayData, weeklyData |-> weeklyData,
   timestamp |-> timestamp, date |-> date]

TransportError == <<"ERR">>
StorageError == <<"STORAGE">>

\* `获取${city}限号信息失败: ${e.message}`
failureText(city, message) ==
  <<"huo", "qu">> \o city \o <<"xian", "hao", "xin", "xi", "shi1", "bai", ":", " ">>
  \o message

\* what fetchLimitNumbersFromNetwork hands back: a value, or an exception
Returned(todayData, weeklyData) ==
  [threw |-> FALSE, message |-> <<>>, todayData |-> todayData, weeklyData |-> weeklyData]
Thrown(message) ==
  [threw |-> TRUE, message |-> message, todayData |-> <<>>, weeklyData |-> EmptyMap]

\* the catch of fetchLimitNumbersFromNetwork
fetchCatch(city, outcome) ==
  IF outcome.threw
  THEN Returned(failureText(city, outcome.message), EmptyMap)
  ELSE outcome

\* the catch of getLimitNumbers: [threw, city, limitInfo]
dailyCatch(city, outcome) ==
  IF outcome.threw
  THEN [threw |-> FALSE, city |-> DEFAULT_CITY, limitInfo |-> Failed]
  ELSE [threw |-> FALSE, city |-> city, limitInfo |-> outcome.todayData]

\* a variant of isTodaySlot that reads Date.getDay() as an index of WEEK_DAYS
isTodaySlotByIndex(todayIndex, day) == day = At0(WEEK_DAYS, todayIndex)

\* the chain of tests that tags a slot as today
isTodaySlot(todayIndex, day) ==
  \/ todayIndex = 0 /\ day = <<"zhou", "ri">>
  \/ todayIndex = 1 /\ day = <<"zhou", "yi">>
  \/ todayIndex = 2 /\ day = <<"zhou", "er">>
  \/ todayIndex = 3 /\ day = <<"zhou", "san">>
  \/ todayIndex = 4 /\ day = <<"zhou", "si">>
  \/ todayIndex = 5 /\ day = <<"zhou", "wu">>
  \/ todayIndex = 6 /\ day = <<"zhou", "liu">>

\* a variant of slotLimitInfo that prefers the weekly map to todayData
slotLimitInfoWeeklyFirst(cachedData, isToday, day) ==
  IF cachedData.present /\ Has(cachedData.weeklyData, day)
  THEN cachedData.weeklyData[day]
  ELSE IF cachedData.present /\ isToday /\ cachedData.todayData # <<>>
  THEN cachedData.todayData
  ELSE NoInfo

\* a variant of slotLimitInfo whose default is the failure value
slotLimitInfoUnknown(cachedData, isToday, day) ==
  IF cachedData.present /\ isToday /\ cachedData.todayData # <<>>
  THEN cachedData.todayData
  ELSE IF cachedData.present /\ Has(cachedData.weeklyData, day)
  THEN cachedData.weeklyData[day]
  ELSE Failed

\* the limitInfo of one slot of the week's list
slotLimitInfo(cachedData, isToday, day) ==
  IF cachedData.present /\ isToday /\ cachedData.todayData # <<>>
  THEN cachedData.todayData
  ELSE IF cachedData.present /\ Has(cachedData.weeklyData, day)
  THEN cachedData.weeklyData[day]
  ELSE NoInfo

\* WEEK_DAYS.map(...) of getWeeklyLimitNumbers
weeklyList(cachedData, todayIndex) ==
  [i \in 1..7 |->
     [day |-> WEEK_DAYS[i], dayIndex |-> i - 1,
      limitInfo |-> slotLimitInfo(cachedData, isTodaySlot(todayIndex, WEEK_DAYS[i]),
                                  WEEK_DAYS[i]),
      isToday |-> isTodaySlot(todayIndex, WEEK_DAYS[i])]]

\* the list returned from the catch of getWeeklyLimitNumbers
errorList(todayIndex) ==
  [i \in 1..7 |->
     [day |-> WEEK_DAYS[i], dayIndex |-> i - 1, limitInfo |-> WeeklyFailed,
      isToday |-> isTodaySlot(todayIndex, WEEK_DAYS[i])]]

(***************************************************************************)
(* The cache logic of fetchLimitNumbersFromNetwork                         *)
(***************************************************************************)
\* a variant of preservedWeekly that carries nothing over from another day
preservedWeeklyOfToday(cacheData, todayDate) ==
  IF cacheData.present /\ cacheData.date = todayDate /\ Keys(cacheData.weeklyData) # {}
  THEN cacheData.weeklyData
  ELSE EmptyMap

\* the weeklyData carried over from the entry read before the weekly fetch
preservedWeekly(cacheData, todayDate) ==
  IF cacheData.present /\ cacheData.date # todayDate
  THEN cacheData.weeklyData
  ELSE IF cacheData.present /\ Keys(cacheData.weeklyData) # {}
  THEN cacheData.weeklyData
  ELSE EmptyMap

\* a variant of weeklyOverride that stores whatever the weekly fetch gave
weeklyOverrideAlways(finalResult, timeInfo, kept, weeklyInfo, todayWeekDay) ==
  [weeklyData |-> weeklyInfo,
   todayData |->
     IF Has(weeklyInfo, todayWeekDay) /\ weeklyInfo[todayWeekDay] # BuXianXing
     THEN IF timeInfo # <<>>
          THEN withTime(weeklyInfo[todayWeekDay], timeInfo)
          ELSE weeklyInfo[todayWeekDay]
     ELSE finalResult]

\* newCacheData after the weekly fetch: a non-empty weekly result replaces the
\* map and, for the weekday of todayDate, the day's value
weeklyOverride(finalResult, timeInfo, kept, weeklyInfo, todayWeekDay) ==
  IF Keys(weeklyInfo) # {}
  THEN [weeklyData |-> weeklyInfo,
        todayData |->
          IF Has(weeklyInfo, todayWeekDay) /\ weeklyInfo[todayWeekDay] # BuXianXing
          THEN IF timeInfo # <<>>
               THEN withTime(weeklyInfo[todayWeekDay], timeInfo)
               ELSE weeklyInfo[todayWeekDay]
          ELSE finalResult]
  ELSE [weeklyData |-> kept, todayData |-> finalResult]

\* the branch of getLimitNumbers for an entry of today without todayData
incompleteCache(cachedData, todayDate) ==
  cachedData.present /\ cachedData.date = todayDate /\ cachedData.todayData = <<>>

\* the test of getLimitNumbers for answering from the cache
cacheHit(cachedData, todayDate) ==
  cachedData.present /\ cachedData.date = todayDate /\ cachedData.todayData # <<>>

\* the test of getWeeklyLimitNumbers for keeping the entry it read
weeklyKeeps(cachedData, todayDate) ==
  cachedData.present /\ cachedData.date = todayDate

\* the catch of getWeeklyLimitNumbers
weeklyCatch(city, todayIndexNow, threw, cachedData, todayIndex) ==
  IF threw
  THEN [threw |-> FALSE, city |-> DEFAULT_CITY, weeklyLimitInfo |-> errorList(todayIndexNow)]
  ELSE [threw |-> FALSE, city |-> city, weeklyLimitInfo |-> weeklyList(cachedData, todayIndex)]

(***************************************************************************)
(* Calls in progress and calls that returned                               *)
(***************************************************************************)
\* what the caller keeps of the call that returned before this one started
NoPrev ==
  [op |-> "none", asked |-> <<>>, city |-> <<>>, today |-> <<>>, usable |-> FALSE,
   requested |-> FALSE, faulted |-> FALSE, startedAt |-> 0, endedAt |-> 0]

IdleRun ==
  [op |-> "idle", prev |-> NoPrev, pc |-> "idle", city |-> <<>>, keyCity |-> <<>>, todayIndex |-> 0,
   startedAt |-> 0, startEntry |-> Null, retries |-> 0, fetches |-> 0, faulted |-> FALSE,
   forced |-> FALSE, loopFetches |-> 0, discarded |-> FALSE,
   requests |-> <<>>, errors |-> {}, dailyCalls |-> 0,
   page |-> PgEmpty, usable |-> FALSE, extractIndex |-> 0,
   finalResult |-> <<>>, timeInfo |-> <<>>, kept |-> EmptyMap,
   todayDate |-> 0, timestamp |-> 0]

\* what is known of the fetch a call made
\* the weekly page a fetch received and the schedule extracted from it
NoWeekly == [page |-> PgEmpty, info |-> EmptyMap]

FetchInfo(ret, failed, wrote, weekly, before) ==
  [fetched |-> TRUE, ret |-> ret, failed |-> failed, wrote |-> wrote,
   weeklyPage |-> weekly.page, weeklyInfo |-> weekly.info, before |-> before]
NoFetch ==
  [fetched |-> FALSE, ret |-> Returned(<<>>, EmptyMap), failed |-> FALSE,
   wrote |-> FALSE, weeklyPage |-> PgEmpty, weeklyInfo |-> EmptyMap, before |-> Null]

\* the record of a call that returned
Rec(run, threw, city, limitInfo, list, served, info) ==
  [op |-> run.op, asked |-> run.keyCity, fetchCity |-> run.city,
   startedAt |-> run.startedAt, endedAt |-> now, startEntry |-> run.startEntry,
   fetches |-> run.fetches, usable |-> run.usable, extractIndex |-> run.extractIndex,
   faulted |-> run.faulted,
   forced |-> run.forced, loopFetches |-> run.loopFetches, discarded |-> run.discarded,
   requests |-> run.requests, errors |-> run.errors, dailyCalls |-> run.dailyCalls,
   finalResult |-> run.finalResult, timeInfo |-> run.timeInfo,
   todayDate |-> run.todayDate, todayIndex |-> run.todayIndex,
   threw |-> threw, city |-> city, limitInfo |-> limitInfo, list |-> list,
   served |-> served, fetch |-> info, prev |-> run.prev]

\* the value a returned call gave for today
todayOf(rec) ==
  IF rec.op = "daily" THEN rec.limitInfo
  ELSE LET i == CHOOSE i \in 1..7 : rec.list[i].isToday IN rec.list[i].limitInfo

Summary(d) ==
  IF d = <<>> THEN NoPrev
  ELSE [op |-> d[1].op, asked |-> d[1].asked, city |-> d[1].city, today |-> todayOf(d[1]),
        usable |-> d[1].usable, requested |-> d[1].fetches > 0, faulted |-> d[1].faulted,
        startedAt |-> d[1].startedAt, endedAt |-> d[1].endedAt]

Responses ==
  {[kind |-> "ok", body |-> p] : p \in {PgOneSix, PgTable, PgRedirect, PgTiny}}
  \cup {[kind |-> "http", body |-> PgTiny], [kind |-> "down", body |-> PgEmpty]}
AltResponses ==
  {[kind |-> "ok", body |-> p] : p \in {PgOneSix, PgRedirect}}
  \cup {[kind |-> "http", body |-> PgTiny], [kind |-> "down", body |-> PgEmpty]}
WeeklyResponses ==
  {[kind |-> "ok", body |-> p] : p \in {PgTable, PgPartial}}
  \cup {[kind |-> "down", body |-> PgEmpty]}
\* which Storage call of a step throws: the get of service.ts, the get of
\* network.ts, the set of network.ts
Faults == {"none", "get", "cache", "set"}

\* the extractions of the pages the network can answer with, computed once
ContentPages == {PgOneSix, PgTable, PgPartial, PgTableEarlier, PgHoliday, PgEmptyTag}
dailyOf == [c \in Cities, d \in 0..6, p \in ContentPages |-> extractDaily(c, d, p.text)]
weeklyOf == [p \in ContentPages |-> extractWeekly(p.text)]

StartTimes == {2}
MaxTicks == 3
MaxCalls == 2
Zones == {0, 1}

(***************************************************************************)
(* The operations, one action per step between two awaits                  *)
(***************************************************************************)
Idle(r) == runs[r].op = "idle"

\* a script run starts a call; runs overlap only where the host allows it
CanStart(r) ==
  /\ Idle(r)
  /\ calls < MaxCalls
  /\ IF r = 1 THEN overlap \/ Idle(2) ELSE overlap /\ ~Idle(1)

Finish(r, rec, store) ==
  /\ done' = <<rec>>
  /\ runs' = [runs EXCEPT ![r] = IdleRun]
  /\ storage' = store

Continue(r, run) ==
  /\ runs' = [runs EXCEPT ![r] = run]
  /\ done' = IF runs[r].op = "idle" THEN <<>> ELSE done
  /\ UNCHANGED storage

\* getWeeklyLimitNumbers after the await of getLimitNumbers: the entry is read
\* again and the list is built from it
ResumeWeekly(r, run, info, store, fault) ==
  LET cachedData == store[run.keyCity]
      out == weeklyCatch(run.keyCity, getDay(now, tzOffset), fault = "get",
                         cachedData, run.todayIndex)
      served == IF fault # "get" /\ cachedData.present /\ cachedData.todayData # <<>>
                THEN cachedData ELSE Null
  IN Finish(r, Rec([run EXCEPT !.faulted = @ \/ fault = "get"], out.threw, out.city, <<>>,
                   out.weeklyLimitInfo, served, info), store)

\* getLimitNumbers returns to its caller
ReturnDaily(r, run, outcome, served, info, store, fault) ==
  LET out == dailyCatch(run.city, outcome)
  IN IF run.op = "daily"
     THEN Finish(r, Rec(run, out.threw, out.city, out.limitInfo, <<>>, served, info), store)
     ELSE ResumeWeekly(r, run, info, store, fault)

\* fetchLimitNumbersFromNetwork returns to getLimitNumbers
ReturnFromFetch(r, run, outcome, wrote, weekly, store, fault) ==
  LET ret == fetchCatch(run.city, outcome)
  IN ReturnDaily(r, run, ret, Null,
                 FetchInfo(ret, outcome.threw, wrote, weekly, storage[run.city]),
                 store, fault)

\* getLimitNumbers for city c, up to its first await; forceRefreshCity is handed
\* to getUserCity alone, whose answer is c
EnterDaily(r, run0, c, getThrows, fault) ==
  LET todayDate == toISODate(now)
      cachedData == storage[c]
      run == [run0 EXCEPT !.city = c, !.faulted = @ \/ getThrows, !.dailyCalls = @ + 1]
  IN IF getThrows
     THEN ReturnDaily(r, run, Thrown(StorageError), Null, NoFetch, storage, fault)
     ELSE IF cacheHit(cachedData, todayDate)
     THEN ReturnDaily(r, run, Returned(cachedData.todayData, cachedData.weeklyData),
                      cachedData, NoFetch, storage, fault)
     ELSE Continue(r, [run EXCEPT !.pc = "primary"])

StartDaily(r, c, force, fault) ==
  /\ CanStart(r)
  /\ EnterDaily(r, [IdleRun EXCEPT !.op = "daily", !.keyCity = c, !.startedAt = now,
                                   !.forced = force,
                                   !.startEntry = storage[c], !.prev = Summary(done)],
                c, fault = "get", "none")
  /\ calls' = calls + 1
  /\ UNCHANGED <<now, tzOffset, overlap>>

\* getWeeklyLimitNumbers for city c, up to its first await
StartWeekly(r, c, force, fault) ==
  /\ CanStart(r)
  /\ LET todayIndex == getDay(now, tzOffset)
         todayDate == toISODate(now)
         cachedData == storage[c]
         run == [IdleRun EXCEPT !.op = "weekly", !.city = c, !.keyCity = c,
                                !.startedAt = now, !.startEntry = cachedData,
                                !.forced = force,
                                !.todayIndex = todayIndex, !.prev = Summary(done)]
     IN IF fault = "get" \/ weeklyKeeps(cachedData, todayDate)
        THEN ResumeWeekly(r, run, NoFetch, storage, fault)
        ELSE Continue(r, [run EXCEPT !.pc = "nested"])
  /\ calls' = calls + 1
  /\ UNCHANGED <<now, tzOffset, overlap>>

\* the getLimitNumbers that getWeeklyLimitNumbers awaits resolves the city anew
NestedDaily(r, c, fault, refault) ==
  /\ runs[r].pc = "nested"
  /\ EnterDaily(r, runs[r], c, fault = "get", refault)
  /\ UNCHANGED <<now, tzOffset, overlap, calls>>

\* a variant of Caught that stores the failure as the day's entry
CaughtAfterWrite(r, run0, message, fault) ==
  LET retries == run0.retries + 1
      run == [run0 EXCEPT !.errors = @ \cup {Len(run0.requests)}]
  IN IF retries >= maxRetries
     THEN ReturnFromFetch(r, run, Thrown(message), FALSE, NoWeekly,
                          [storage EXCEPT ![run.city] =
                             CacheData(failureText(run.city, message), EmptyMap, now,
                                       toISODate(now))],
                          fault)
     ELSE Continue(r, [run EXCEPT !.retries = retries, !.pc = "primary"])

\* the catch inside the retry loop
Caught(r, run0, message, fault) ==
  LET retries == run0.retries + 1
      run == [run0 EXCEPT !.errors = @ \cup {Len(run0.requests)}]
  IN IF retries >= maxRetries
     THEN ReturnFromFetch(r, run, Thrown(message), FALSE, NoWeekly, storage, fault)
     ELSE Continue(r, [run EXCEPT !.retries = retries, !.pc = "primary"])

\* a variant of AfterExtraction that stores the day's result before the weekly
\* fetch is awaited
AfterExtractionEarlyWrite(r, run, e, fault) ==
  LET todayDate == toISODate(now)
      cacheData == IF fault = "cache" THEN Null ELSE storage[run.city]
  IN IF e.shortcut
     THEN ReturnFromFetch(r, run, Returned(e.finalResult, EmptyMap), FALSE, NoWeekly,
                          storage, fault)
     ELSE /\ runs' = [runs EXCEPT ![r] =
                        [run EXCEPT !.pc = "weekly", !.finalResult = e.finalResult,
                                    !.timeInfo = e.timeInfo, !.todayDate = todayDate,
                                    !.timestamp = now,
                                    !.faulted = @ \/ fault = "cache",
                                    !.kept = preservedWeekly(cacheData, todayDate)]]
          /\ done' = IF runs[r].op = "idle" THEN <<>> ELSE done
          /\ storage' = [storage EXCEPT ![run.city] =
                           CacheData(e.finalResult, EmptyMap, now, todayDate)]

\* from the extraction e of the page to the await of the weekly fetch
AfterExtraction(r, run, e, fault) ==
  LET todayDate == toISODate(now)
      cacheData == IF fault = "cache" THEN Null ELSE storage[run.city]
  IN IF e.shortcut
     THEN ReturnFromFetch(r, run, Returned(e.finalResult, EmptyMap), FALSE, NoWeekly,
                          storage, fault)
     ELSE Continue(r, [run EXCEPT !.pc = "weekly", !.finalResult = e.finalResult,
                                  !.timeInfo = e.timeInfo, !.todayDate = todayDate,
                                  !.timestamp = now,
                                  !.faulted = @ \/ fault = "cache",
                                  !.kept = preservedWeekly(cacheData, todayDate)])

\* from the end of the retry loop to the await of the weekly fetch
AfterLoop(r, run, fault) ==
  IF isInvalidPage(run.page)
  THEN ReturnFromFetch(r, run, Thrown(InvalidPageMessage), FALSE, NoWeekly, storage, fault)
  ELSE AfterExtraction(r, [run EXCEPT !.usable = TRUE,
                                      !.extractIndex = getDay(now, tzOffset)],
                       dailyOf[run.city, getDay(now, tzOffset), run.page], fault)

\* the response to the request for the search page
FetchPrimary(r, resp, fault) ==
  /\ runs[r].pc = "primary"
  /\ LET run == [runs[r] EXCEPT !.fetches = @ + 1, !.loopFetches = @ + 1,
                                !.requests = Append(@, buildSearchUrl(runs[r].city))]
     IN IF resp.kind = "down" THEN Caught(r, run, TransportError, fault)
        ELSE IF resp.kind = "http" THEN Caught(r, run, HttpErrorMessage, fault)
        ELSE IF isRedirectPage(resp.body)
        THEN Continue(r, [run EXCEPT !.page = resp.body, !.retries = @ + 1,
                                     !.pc = IF run.retries + 1 = 1 THEN "alt1" ELSE "alt2"])
        ELSE AfterLoop(r, [run EXCEPT !.page = resp.body], fault)
  /\ UNCHANGED <<now, tzOffset, overlap, calls>>

\* the response to the request for one of the two alternative pages
FetchAlternative(r, resp, fault) ==
  /\ runs[r].pc \in {"alt1", "alt2"}
  /\ LET run == [runs[r] EXCEPT !.fetches = @ + 1, !.loopFetches = @ + 1,
                                !.requests = Append(@, IF runs[r].pc = "alt1"
                                                       THEN alternativeUrl1(runs[r].city)
                                                       ELSE alternativeUrl2(runs[r].city))]
     IN IF resp.kind = "down" THEN Caught(r, run, TransportError, fault)
        ELSE IF run.retries < maxRetries
        THEN Continue(r, [run EXCEPT !.page = resp.body, !.pc = "primary",
                                     !.discarded = @ \/ ~isInvalidPage(resp.body)])
        ELSE AfterLoop(r, [run EXCEPT !.page = resp.body], fault)
  /\ UNCHANGED <<now, tzOffset, overlap, calls>>

\* the response to the request of fetchWeeklyLimitNumbersFromNetwork, and the
\* rest of fetchLimitNumbersFromNetwork
AfterWeekly(r, run, weekly, fault) ==
  LET new == weeklyOverride(run.finalResult, run.timeInfo, run.kept, weekly.info,
                            getWeekDayText(run.todayDate, tzOffset))
      newCacheData == CacheData(new.todayData, new.weeklyData, run.timestamp,
                                run.todayDate)
  IN IF fault = "set"
     THEN ReturnFromFetch(r, [run EXCEPT !.faulted = TRUE], Thrown(StorageError), FALSE,
                          weekly, storage, fault)
     ELSE ReturnFromFetch(r, run, Returned(new.todayData, new.weeklyData), TRUE,
                          weekly, [storage EXCEPT ![run.city] = newCacheData], fault)

\* the catch of fetchWeeklyLimitNumbersFromNetwork gives the empty map
weeklyInfoOf(resp) ==
  [page |-> resp.body,
   info |-> IF resp.kind = "down" THEN EmptyMap ELSE weeklyOf[resp.body]]

FetchWeekly(r, resp, fault) ==
  /\ runs[r].pc = "weekly"
  /\ AfterWeekly(r, [runs[r] EXCEPT !.fetches = @ + 1], weeklyInfoOf(resp), fault)
  /\ UNCHANGED <<now, tzOffset, overlap, calls>>

(***************************************************************************)
(* City resolution: getUserCity and withTimeout. Each call is followed     *)
(* from await to await; the clock counts milliseconds; two script runs may *)
(* resolve the city at once, over the same four keys of Storage            *)
(***************************************************************************)
MsPerDay == 86400000
\* the timeouts and the age limit written in getUserCity
TempCityMaxAge == 30000
LocationTimeoutMs == 30000
GeocodeTimeoutMs == 3000

\* Date.now().toString() and parseInt(text, 10) over decimal digits
DecimalDigits == <<"0", "1", "2", "3", "4", "5", "6", "7", "8", "9">>
RECURSIVE toString(_)
toString(n) ==
  IF n < 10 THEN <<DecimalDigits[n + 1]>>
  ELSE toString(n \div 10) \o <<DecimalDigits[(n % 10) + 1]>>
DigitValue(ch) == CHOOSE v \in 0..9 : DecimalDigits[v + 1] = ch
RECURSIVE parseInt(_)
parseInt(text) ==
  IF Len(text) = 1 THEN DigitValue(text[1])
  ELSE 10 * parseInt(SubSeq(text, 1, Len(text) - 1)) + DigitValue(text[Len(text)])

\* new Date().toDateString(): the local date, as a day number
toDateString(t) == t \div MsPerDay
NoDate == -1

\* the four keys: userCity, userCityCacheDate, tempUserCity, tempUserCityTimestamp
NoCityKeys ==
  [userCity |-> <<>>, userCityCacheDate |-> NoDate,
   tempUserCity |-> <<>>, tempUserCityTimestamp |-> <<>>]

\* the promise withTimeout returns, with the timer and the wrapped promise;
\* first is the callback that ran first and count how many of them ran
NoEvent == [kind |-> "none", value |-> <<>>]
NoTimeout ==
  [created |-> FALSE, promise |-> "pending", timer |-> "none", deadline |-> 0,
   settled |-> FALSE, value |-> <<>>, fallbackValue |-> <<>>, first |-> NoEvent, count |-> 0]
withTimeout(timeoutMs, fallbackValue) ==
  [created |-> TRUE, promise |-> "pending", timer |-> "armed",
   deadline |-> cityNow + timeoutMs, settled |-> FALSE, value |-> <<>>,
   fallbackValue |-> fallbackValue, first |-> NoEvent, count |-> 0]

\* a variant of resolve that takes every call, not only the first
resolveEvery(w, v) == [w EXCEPT !.settled = TRUE, !.value = v]

\* resolve of a promise: the first call settles it, a later one does nothing
resolve(w, v) == IF w.settled THEN w ELSE [w EXCEPT !.settled = TRUE, !.value = v]

\* a callback of withTimeout runs
called(w, kind, value) ==
  [w EXCEPT !.count = @ + 1,
            !.first = IF w.count = 0 THEN [kind |-> kind, value |-> value] ELSE @]

\* clearTimeout(timeoutId): a timer that has not fired is removed
clearTimeout(w) ==
  IF w.timer = "armed" THEN [w EXCEPT !.timer = "cleared", !.deadline = 0] ELSE w

\* the callback of setTimeout
onTimeout(w) ==
  resolve(called([w EXCEPT !.timer = "fired", !.deadline = 0], "timeout", w.fallbackValue),
          w.fallbackValue)
\* the two callbacks of promise.then
onFulfilled(w, value) ==
  resolve(called(clearTimeout([w EXCEPT !.promise = "fulfilled"]), "fulfilled", value), value)
onRejected(w) ==
  resolve(called(clearTimeout([w EXCEPT !.promise = "rejected"]), "rejected", w.fallbackValue),
          w.fallbackValue)

\* what Location.requestCurrent and Location.reverseGeocode can answer
NoLocation == <<>>
ALocation == <<"location">>
Placemark(locality) == [locality |-> locality]
LocationOutcomes ==
  {[kind |-> "fulfilled", value |-> ALocation], [kind |-> "fulfilled", value |-> NoLocation],
   [kind |-> "rejected", value |-> NoLocation]}
GeocodeOutcomes ==
  {[kind |-> "fulfilled", value |-> <<Placemark(ChengDu)>>],
   [kind |-> "fulfilled", value |-> <<Placemark(<<>>)>>],
   [kind |-> "fulfilled", value |-> <<>>],
   [kind |-> "rejected", value |-> <<>>]}

\* the last call that took the default city and wrote the temporary cache: when
\* it returned, whether no other call was in progress while it ran and none has
\* made a location request since, and whether an unforced call has started since
\* the temporary cache went out of date
NeverFell == [at |-> NoDate, clean |-> FALSE, expired |-> FALSE]

IdleCityRun ==
  [pc |-> "idle", forced |-> FALSE, startedAt |-> 0, startKeys |-> NoCityKeys,
   attempted |-> FALSE, cleared |-> FALSE, faulted |-> FALSE, alone |-> TRUE,
   fell |-> NeverFell,
   location |-> NoTimeout, geocode |-> NoTimeout]

\* the record of a getUserCity call that returned
CityRec(run, city, path, keys) ==
  [forced |-> run.forced, startKeys |-> run.startKeys, endKeys |-> keys,
   attempted |-> run.attempted, cleared |-> run.cleared, faulted |-> run.faulted,
   alone |-> run.alone,
   located |-> run.location.settled /\ run.location.value # <<>>,
   placemarks |-> IF run.geocode.settled THEN run.geocode.value ELSE <<>>,
   startedToday |-> toDateString(run.startedAt),
   fell |-> run.fell.at # NoDate,
   fellAge |-> IF run.fell.at # NoDate THEN run.startedAt - run.fell.at ELSE 0,
   fellClean |-> run.fell.clean, fellExpired |-> run.fell.expired,
   threw |-> FALSE, city |-> city, path |-> path]

MaxCityCalls == 3
\* the clock starts three seconds before midnight and is read at these instants
CityStart == MsPerDay - GeocodeTimeoutMs
Instants ==
  {0, GeocodeTimeoutMs, TempCityMaxAge, TempCityMaxAge + GeocodeTimeoutMs}

CityIdle(r) == cityRuns[r].pc = "idle"

\* run r starts here, unforced, when the temporary cache last written is out of date
startsExpired(r, run) ==
  /\ CityIdle(r)
  /\ ~run.forced
  /\ cityFell.at # NoDate
  /\ cityNow - cityFell.at >= TempCityMaxAge

\* getUserCity returns city; the objects of the call stay, for what arrives late
ReturnCity(r, run, city, path, keys) ==
  /\ cityDone' = <<CityRec(run, city, path, keys)>>
  /\ cityRuns' = [q \in Runs |->
                    IF q = r
                    THEN [IdleCityRun EXCEPT !.location = run.location,
                                             !.geocode = run.geocode]
                    ELSE [cityRuns[q] EXCEPT !.alone = FALSE]]
  /\ cityKeys' = keys
  /\ cityFell' =
       IF path = "fallback"
       THEN [at |-> cityNow, clean |-> run.alone, expired |-> FALSE]
       ELSE [cityFell EXCEPT !.expired = @ \/ startsExpired(r, run)]

\* getUserCity goes on to its next await
AwaitCity(r, run, keys) ==
  /\ cityRuns' = [q \in Runs |->
                    IF q = r THEN run ELSE [cityRuns[q] EXCEPT !.alone = FALSE]]
  /\ cityKeys' = keys
  /\ UNCHANGED cityDone
  /\ cityFell' = [cityFell EXCEPT !.clean = FALSE, !.expired = @ \/ startsExpired(r, run)]

\* the default city: the temporary cache is written and DEFAULT_CITY returned;
\* a Storage.set that throws is caught by the outer catch, which returns it too
fallBack(r, run, fault) ==
  IF fault = "set"
  THEN ReturnCity(r, [run EXCEPT !.faulted = TRUE], DEFAULT_CITY, "catch", cityKeys)
  ELSE ReturnCity(r, run, DEFAULT_CITY, "fallback",
                  [cityKeys EXCEPT !.tempUserCity = DEFAULT_CITY,
                                   !.tempUserCityTimestamp = toString(cityNow)])

\* placemarks[0].locality || '', when there is a placemark
localityOf(placemarks) == IF Len(placemarks) > 0 THEN placemarks[1].locality ELSE <<>>

\* a variant of afterGeocode that returns what the geocoder gave, empty or not
afterGeocodeUnchecked(r, run, placemarks, fault) ==
  ReturnCity(r, run, localityOf(placemarks), "located",
             [cityKeys EXCEPT !.userCity = localityOf(placemarks),
                              !.userCityCacheDate = toDateString(cityNow)])

\* after the await of reverseGeocode: the locality is stored with the date, or
\* the default is taken; a Storage.set that throws is caught by the inner catch
afterGeocode(r, run, placemarks, fault) ==
  IF localityOf(placemarks) # <<>> /\ fault # "set"
  THEN ReturnCity(r, run, localityOf(placemarks), "located",
                  [cityKeys EXCEPT !.userCity = localityOf(placemarks),
                                   !.userCityCacheDate = toDateString(cityNow)])
  ELSE fallBack(r, run, fault)

\* after the await of the location request
afterLocation(r, run, locationInfo, fault) ==
  IF locationInfo # NoLocation
  THEN AwaitCity(r, [run EXCEPT !.pc = "geocode",
                                !.geocode = withTimeout(GeocodeTimeoutMs, <<>>)],
                 cityKeys)
  ELSE fallBack(r, run, fault)

\* a variant of tempCacheFresh that does not look at the age
tempCachePresent(forceRefresh, keys, t) ==
  ~forceRefresh /\ keys.tempUserCity # <<>> /\ keys.tempUserCityTimestamp # <<>>

\* the test of the temporary cache
tempCacheFresh(forceRefresh, keys, t) ==
  /\ ~forceRefresh
  /\ keys.tempUserCity # <<>>
  /\ keys.tempUserCityTimestamp # <<>>
  /\ t - parseInt(keys.tempUserCityTimestamp) < TempCityMaxAge

\* the test of the city stored today
cityCacheOfToday(forceRefresh, keys, t) ==
  /\ ~forceRefresh
  /\ keys.userCity # <<>>
  /\ keys.userCityCacheDate # NoDate
  /\ keys.userCityCacheDate = toDateString(t)

\* getUserCity, up to its first await or its return
StartCity(r, forceRefresh, fault) ==
  /\ CityIdle(r)
  /\ cityCalls < MaxCityCalls
  /\ cityCalls' = cityCalls + 1
  /\ UNCHANGED cityNow
  /\ LET run == [IdleCityRun EXCEPT !.forced = forceRefresh, !.startedAt = cityNow,
                                   !.startKeys = cityKeys, !.fell = cityFell,
                                   !.alone = \A q \in Runs \ {r} : CityIdle(q)]
     IN IF fault = "get"
        THEN ReturnCity(r, [run EXCEPT !.faulted = TRUE], DEFAULT_CITY, "catch", cityKeys)
        ELSE IF tempCacheFresh(forceRefresh, cityKeys, cityNow)
        THEN ReturnCity(r, run, cityKeys.tempUserCity, "temp", cityKeys)
        ELSE IF cityCacheOfToday(forceRefresh, cityKeys, cityNow)
        THEN ReturnCity(r, run, cityKeys.userCity, "cache",
                        [cityKeys EXCEPT !.tempUserCity = <<>>,
                                         !.tempUserCityTimestamp = <<>>])
        ELSE AwaitCity(r, [run EXCEPT !.pc = "location", !.attempted = TRUE,
                                      !.cleared = TRUE,
                                      !.location = withTimeout(LocationTimeoutMs, NoLocation)],
                       NoCityKeys)

\* the wrapped location request settles: its own catch turns a rejection into null
LocationSettles(r, outcome, fault) ==
  LET w == cityRuns[r].location
      value == IF outcome.kind = "fulfilled" THEN outcome.value ELSE NoLocation
      run == [cityRuns[r] EXCEPT !.location = onFulfilled(w, value)]
  IN /\ w.created /\ w.promise = "pending"
     /\ UNCHANGED <<cityNow, cityCalls>>
     /\ IF run.pc = "location" /\ ~w.settled
        THEN afterLocation(r, run, run.location.value, fault)
        ELSE /\ fault = "none"
             /\ cityRuns' = [cityRuns EXCEPT ![r] = run]
             /\ UNCHANGED <<cityKeys, cityDone, cityFell>>

\* the timer of the location request fires
LocationTimesOut(r, fault) ==
  LET w == cityRuns[r].location
      run == [cityRuns[r] EXCEPT !.location = onTimeout(w)]
  IN /\ w.timer = "armed" /\ cityNow >= w.deadline
     /\ UNCHANGED <<cityNow, cityCalls>>
     /\ afterLocation(r, run, run.location.value, fault)

\* Location.reverseGeocode settles
GeocodeSettles(r, outcome, fault) ==
  LET w == cityRuns[r].geocode
      run == [cityRuns[r] EXCEPT !.geocode = IF outcome.kind = "fulfilled"
                                            THEN onFulfilled(w, outcome.value)
                                            ELSE onRejected(w)]
  IN /\ w.created /\ w.promise = "pending"
     /\ UNCHANGED <<cityNow, cityCalls>>
     /\ IF run.pc = "geocode" /\ ~w.settled
        THEN afterGeocode(r, run, run.geocode.value, fault)
        ELSE /\ fault = "none"
             /\ cityRuns' = [cityRuns EXCEPT ![r] = run]
             /\ UNCHANGED <<cityKeys, cityDone, cityFell>>

\* the timer of the reverse geocoding fires
GeocodeTimesOut(r, fault) ==
  LET w == cityRuns[r].geocode
      run == [cityRuns[r] EXCEPT !.geocode = onTimeout(w)]
  IN /\ w.timer = "armed" /\ cityNow >= w.deadline
     /\ UNCHANGED <<cityNow, cityCalls>>
     /\ afterGeocode(r, run, run.geocode.value, fault)

\* time passes; a timer that is due fires before the clock moves on
CityTick(t) ==
  /\ cityNow < CityStart + t
  /\ \A r \in Runs : /\ cityRuns[r].location.timer = "armed"
                        => CityStart + t <= cityRuns[r].location.deadline
                     /\ cityRuns[r].geocode.timer = "armed"
                        => CityStart + t <= cityRuns[r].geocode.deadline
  /\ cityNow' = CityStart + t
  /\ UNCHANGED <<cityKeys, cityRuns, cityDone, cityCalls, cityFell>>

NoCity ==
  /\ cityKeys = NoCityKeys
  /\ cityNow = CityStart
  /\ cityRuns = [r \in Runs |-> IdleCityRun]
  /\ cityDone = <<>>
  /\ cityCalls = 0
  /\ cityFell = NeverFell

InitCity ==
  /\ storage = [c \in Cities |-> Null]
  /\ now = 0 /\ tzOffset = 0 /\ overlap = TRUE
  /\ runs = [r \in Runs |-> IdleRun]
  /\ done = <<>> /\ calls = 0
  /\ xcity = BeiJing /\ xday = 0 /\ xpage = PgEmpty /\ xout = [kind |-> "none"]
  /\ NoCity

\* a call of Storage may throw: Storage.get when a call starts, Storage.set when
\* it is about to return
NextCity ==
  \/ \E t \in Instants : CityTick(t) /\ UNCHANGED <<serviceVars, extractVars>>
  \/ \E r \in Runs, force \in BOOLEAN, f \in {"none", "get"} :
       StartCity(r, force, f) /\ UNCHANGED <<serviceVars, extractVars>>
  \/ \E r \in Runs, o \in LocationOutcomes, f \in {"none", "set"} :
       LocationSettles(r, o, f) /\ UNCHANGED <<serviceVars, extractVars>>
  \/ \E r \in Runs, f \in {"none", "set"} :
       LocationTimesOut(r, f) /\ UNCHANGED <<serviceVars, extractVars>>
  \/ \E r \in Runs, o \in GeocodeOutcomes, f \in {"none", "set"} :
       GeocodeSettles(r, o, f) /\ UNCHANGED <<serviceVars, extractVars>>
  \/ \E r \in Runs, f \in {"none", "set"} :
       GeocodeTimesOut(r, f) /\ UNCHANGED <<serviceVars, extractVars>>

SpecCity == InitCity /\ [][NextCity]_vars

\* time passes between two calls: the clock reaches the next third of a day
Tick ==
  /\ \E s \in StartTimes : s <= now /\ now < s + MaxTicks
  /\ \A r \in Runs : Idle(r)
  /\ now' = now + 1
  /\ UNCHANGED <<storage, tzOffset, overlap, runs, done, calls>>

Init ==
  /\ storage = [c \in Cities |-> Null]
  /\ now \in StartTimes
  /\ tzOffset \in Zones
  /\ overlap = FALSE
  /\ runs = [r \in Runs |-> IdleRun]
  /\ done = <<>>
  /\ calls = 0
  /\ xcity = BeiJing /\ xday = 0 /\ xpage = PgEmpty /\ xout = [kind |-> "none"]
  /\ NoCity

Next ==
  \/ Tick /\ UNCHANGED <<extractVars, cityVars>>
  \/ \E r \in Runs, c \in Cities, f \in Faults : StartDaily(r, c, FALSE, f) /\ UNCHANGED <<extractVars, cityVars>>
  \/ \E r \in Runs, c \in Cities, f \in Faults : StartWeekly(r, c, FALSE, f) /\ UNCHANGED <<extractVars, cityVars>>
  \/ \E r \in Runs, c \in Cities, f \in Faults, g \in Faults :
       NestedDaily(r, c, f, g) /\ UNCHANGED <<extractVars, cityVars>>
  \/ \E r \in Runs, resp \in Responses, f \in Faults :
       FetchPrimary(r, resp, f) /\ UNCHANGED <<extractVars, cityVars>>
  \/ \E r \in Runs, resp \in AltResponses, f \in Faults :
       FetchAlternative(r, resp, f) /\ UNCHANGED <<extractVars, cityVars>>
  \/ \E r \in Runs, resp \in WeeklyResponses, f \in Faults :
       FetchWeekly(r, resp, f) /\ UNCHANGED <<extractVars, cityVars>>

Spec == Init /\ [][Next]_vars

(***************************************************************************)
(* Overlapping and forced daily calls: two script runs may be in progress  *)
(* at once, on the second day, with or without the entry the day before    *)
(* left in the cache; no call of Storage fails                             *)
(***************************************************************************)
\* the entry a daily call of the day before left, in a zone where that day was
\* a workday: the page gave 1和6 and the weekly page the earlier table
EarlierEntry == CacheData(OneSix, weeklyOf[PgTableEarlier], 2, 0)

InitRuns ==
  /\ tzOffset = 1
  /\ storage \in {[c \in Cities |-> Null],
                  [c \in Cities |-> IF c = BeiJing THEN EarlierEntry ELSE Null]}
  /\ now = 5
  /\ overlap = TRUE
  /\ runs = [r \in Runs |-> IdleRun]
  /\ done = <<>>
  /\ calls = 0
  /\ xcity = BeiJing /\ xday = 0 /\ xpage = PgEmpty /\ xout = [kind |-> "none"]
  /\ NoCity

\* the answers to the search request: also a result page that says nothing of
\* today but that holidays are excepted, and one whose tag of today's value is empty
RunResponses ==
  Responses \cup {[kind |-> "ok", body |-> PgHoliday], [kind |-> "ok", body |-> PgEmptyTag]}

NextRuns ==
  \/ \E r \in Runs, force \in BOOLEAN :
       StartDaily(r, BeiJing, force, "none") /\ UNCHANGED <<extractVars, cityVars>>
  \/ \E r \in Runs, resp \in RunResponses :
       FetchPrimary(r, resp, "none") /\ UNCHANGED <<extractVars, cityVars>>
  \/ \E r \in Runs, resp \in AltResponses :
       FetchAlternative(r, resp, "none") /\ UNCHANGED <<extractVars, cityVars>>
  \/ \E r \in Runs, resp \in WeeklyResponses :
       FetchWeekly(r, resp, "none") /\ UNCHANGED <<extractVars, cityVars>>

SpecRuns == InitRuns /\ [][NextRuns]_vars

(***************************************************************************)
(* Progress of one script run. The steps of the program itself are taken:  *)
(* the city resolution that getLimitNumbers awaits is wrapped in           *)
(* withTimeout. The answers to Context.fetch are the network's: nothing in *)
(* the source bounds them, so nothing here says that they arrive.          *)
(***************************************************************************)
ResolveCity == \E c \in Cities : NestedDaily(1, c, "none", "none") /\ UNCHANGED <<extractVars, cityVars>>

NextLive ==
  \/ Tick /\ UNCHANGED <<extractVars, cityVars>>
  \/ \E c \in Cities : StartDaily(1, c, FALSE, "none") /\ UNCHANGED <<extractVars, cityVars>>
  \/ \E c \in Cities : StartWeekly(1, c, FALSE, "none") /\ UNCHANGED <<extractVars, cityVars>>
  \/ ResolveCity
  \/ \E resp \in Responses : FetchPrimary(1, resp, "none") /\ UNCHANGED <<extractVars, cityVars>>
  \/ \E resp \in AltResponses : FetchAlternative(1, resp, "none") /\ UNCHANGED <<extractVars, cityVars>>
  \/ \E resp \in WeeklyResponses : FetchWeekly(1, resp, "none") /\ UNCHANGED <<extractVars, cityVars>>

SpecLive == Init /\ [][NextLive]_vars /\ WF_vars(ResolveCity)

(***************************************************************************)
(* The extraction on its own: a city, a weekday and a page are drawn, and  *)
(* the daily or the weekly extraction is applied to them                   *)
(***************************************************************************)
ExtractCities == {BeiJing, ShangHai, ChengDu}
Pages ==
  {PgAnchored, PgPairFirst, PgOneSix, PgTable, PgPartial, PgHoliday, PgNoLimit, PgHours,
   PgTag, PgTagNoLimit, PgRedirect, PgShortRefresh, PgLongRedirect, PgTiny,
   PgRuleTwo, PgDaysList, PgKeyword, PgBoth, PgLongEntry}
NoOutput == [kind |-> "none"]

\* the part of fetchLimitNumbersFromNetwork between the page and the cache
ExtractDaily ==
  /\ xout = NoOutput
  /\ ~isInvalidPage(xpage)
  /\ xout' = [kind |-> "daily", result |-> extractDaily(xcity, xday, xpage.text),
               tried |-> strategiesTried(xcity, xday, xpage.text)]
  /\ UNCHANGED <<xcity, xday, xpage>>

\* the part of fetchWeeklyLimitNumbersFromNetwork after the page
ExtractWeekly ==
  /\ xout = NoOutput
  /\ xout' = [kind |-> "weekly", result |-> extractWeekly(xpage.text)]
  /\ UNCHANGED <<xcity, xday, xpage>>

\* the two tests made on a fetched body: inside the retry loop and after it
ClassifyPage ==
  /\ xout = NoOutput
  /\ xout' = [kind |-> "page", redirect |-> isRedirectPage(xpage),
               invalid |-> isInvalidPage(xpage)]
  /\ UNCHANGED <<xcity, xday, xpage>>

\* the places that turn Date.getDay() into a name of WEEK_DAYS: getWeekDayText,
\* weekDayIndex of the daily fetch, the pattern about tomorrow, isToday of the
\* week's list
MapWeekday ==
  /\ xout = NoOutput
  /\ xout' = [kind |-> "weekday", text |-> weekDayTextOf(xday),
               today |-> todayWeekDayOf(xday), tomorrow |-> tomorrowWeekDay(xday),
               slots |-> {WEEK_DAYS[i] : i \in {j \in 1..7 : isTodaySlot(xday, WEEK_DAYS[j])}}]
  /\ UNCHANGED <<xcity, xday, xpage>>

InitExtract ==
  /\ storage = [c \in Cities |-> Null]
  /\ now = 0 /\ tzOffset = 0 /\ overlap = FALSE
  /\ runs = [r \in Runs |-> IdleRun]
  /\ done = <<>> /\ calls = 0
  /\ xcity \in ExtractCities /\ xday \in 0..6 /\ xpage \in Pages
  /\ xout = NoOutput
  /\ NoCity

NextExtract ==
  \/ ExtractDaily /\ UNCHANGED <<serviceVars, cityVars>>
  \/ ExtractWeekly /\ UNCHANGED <<serviceVars, cityVars>>
  \/ ClassifyPage /\ UNCHANGED <<serviceVars, cityVars>>
  \/ MapWeekday /\ UNCHANGED <<serviceVars, cityVars>>

SpecExtract == InitExtract /\ [][NextExtract]_vars

(***************************************************************************)
(* Properties                                                              *)
(***************************************************************************)
HasLast == done # <<>>
Last == done[1]

ThreeEight == <<"3", "he", "8">>
FailureWord == <<"shi1", "bai">>

\* two instants of the same calendar day, in UTC and in local time
sameDay(a, b) ==
  toISODate(a) = toISODate(b) /\ localDate(a, tzOffset) = localDate(b, tzOffset)

\* the returned data says that something failed
carriesFailure(rec) ==
  IF rec.op = "daily" THEN Includes(rec.limitInfo, FailureWord)
  ELSE \E i \in 1..7 : Includes(rec.list[i].limitInfo, FailureWord)

\* the number of workdays a schedule has a value for
workdayEntries(m) == Cardinality({n \in 1..5 : Has(m, WEEK_DAYS[n])})

\* C1: getLimitNumbers called twice for the same city within one calendar day,
\* the first call having obtained a usable page: the second call issues no
\* network request and returns the limitInfo the first call returned.
C1_Case ==
  /\ HasLast /\ Last.op = "daily" /\ Last.prev.op = "daily"
  /\ Last.prev.asked = Last.asked
  /\ sameDay(Last.prev.startedAt, Last.endedAt)
  /\ Last.prev.usable /\ ~Last.prev.faulted /\ ~Last.faulted
C1_DailyIdempotent ==
  C1_Case => Last.fetches = 0 /\ Last.limitInfo = Last.prev.today

\* C2: the todayData of a cache entry whose date differs from the current date
\* is never returned as today's record, neither as limitInfo of getLimitNumbers
\* nor in the isToday slot of getWeeklyLimitNumbers.
C2_NoStaleToday ==
  (HasLast /\ ~Last.faulted /\ Last.served.present)
    => Last.served.date = toISODate(Last.endedAt)

\* C3: getLimitNumbers never answers from an entry that was produced during
\* another local calendar day than the one of the call.
C3_LocalDayFreshness ==
  (HasLast /\ Last.op = "daily" /\ Last.served.present)
    => localDate(Last.served.timestamp, tzOffset) = localDate(Last.startedAt, tzOffset)

\* C4: a call never propagates an exception; it returns a value, a week's list
\* has 7 items, and when the fetch failed the returned data carries the failure.
C4_FailureCarried ==
  HasLast =>
    /\ ~Last.threw
    /\ (Last.op = "weekly" => Len(Last.list) = 7)
    /\ (Last.fetch.failed => carriesFailure(Last))

\* C5: getWeeklyLimitNumbers starts from a stale entry with a non-empty weekly
\* map and the daily fetch for the same city produces 1和6 for today: the slot
\* tagged isToday holds 1和6, whatever the cached weekly map held for that day.
C5_Case ==
  /\ HasLast /\ Last.op = "weekly" /\ ~Last.faulted
  /\ Last.startEntry.present /\ Last.startEntry.date # toISODate(Last.startedAt)
  /\ Keys(Last.startEntry.weeklyData) # {}
  /\ Last.fetch.fetched /\ Last.fetchCity = Last.asked
  /\ Last.fetch.ret.todayData = OneSix
C5_WeeklyReconciliation == C5_Case => todayOf(Last) = OneSix
C5_Witness ==
  /\ C5_Case /\ todayOf(Last) = OneSix
  /\ Has(Last.startEntry.weeklyData, todayWeekDayOf(Last.todayIndex))
  /\ Last.startEntry.weeklyData[todayWeekDayOf(Last.todayIndex)] # OneSix

\* C6: after a daily fetch whose weekly extraction gave a non-empty schedule,
\* the stored and the returned todayData are the schedule's value for today's
\* weekday (with the time window, if one was found) when that value is present
\* and is not 不限行, and the daily extraction result otherwise.
C6_Expected(rec) ==
  LET today == todayWeekDayOf(rec.extractIndex)
      w == rec.fetch.weeklyInfo
  IN IF Has(w, today) /\ w[today] # BuXianXing
     THEN IF rec.timeInfo # <<>> THEN withTime(w[today], rec.timeInfo) ELSE w[today]
     ELSE rec.finalResult
C6_WeeklyAuthority ==
  (HasLast /\ Last.fetch.wrote /\ Keys(Last.fetch.weeklyInfo) # {})
    => /\ storage[Last.fetchCity].todayData = C6_Expected(Last)
       /\ Last.fetch.ret.todayData = storage[Last.fetchCity].todayData

\* C7: a weekly extraction that recovers fewer than 5 workday entries is never
\* written: after it the entry's weeklyData is the weeklyData the entry held
\* before the write (the empty map when there was no entry).
C7_Case ==
  /\ HasLast /\ ~Last.faulted /\ Last.fetch.wrote
  /\ workdayEntries(Last.fetch.weeklyInfo) < MinWeeklyKeys
C7_PartialRejected ==
  C7_Case => storage[Last.fetchCity].weeklyData = Last.fetch.before.weeklyData
C7_Witness ==
  /\ C7_Case /\ Last.fetch.weeklyPage = PgPartial
  /\ workdayEntries(Last.fetch.before.weeklyData) = 5
  /\ storage[Last.fetchCity].weeklyData = Last.fetch.before.weeklyData

\* C8: on a Saturday or a Sunday, for every city whose weekend rule is true or
\* that has no weekend rule, the daily outcome of a usable page is 不限行, with
\* or without a workday time window, whatever the page contains.
C8_Case ==
  /\ xout.kind = "daily" /\ xday \in {0, 6}
  /\ (xcity \in DOMAIN CITY_WEEKEND_RULES => CITY_WEEKEND_RULES[xcity])
C8_Outcome ==
  /\ xout.result.limitNumbers = BuXianXing
  /\ \/ xout.result.finalResult = BuXianXing
     \/ /\ xout.result.timeInfo # <<>>
        /\ xout.result.finalResult =
             BuXianXing \o <<" ", "(">> \o GongZuoRi \o xout.result.timeInfo \o <<")">>
C8_WeekendShortcut == C8_Case => C8_Outcome
C8_Witness ==
  /\ xout.kind = "daily" /\ xday = 6 /\ xcity = ChengDu /\ xpage = PgPairFirst
  /\ xout.result.finalResult = BuXianXing

\* C9: a page whose only signal is a holiday-exception clause does not get the
\* outcome 不限行 on a workday; the later strategies run and the failure outcome
\* is what is left.
C9_HolidayGuard ==
  (xout.kind = "daily" /\ xday \in 1..5 /\ xpage = PgHoliday)
    => /\ xout.result.limitNumbers # BuXianXing
       /\ xout.result.finalResult # BuXianXing
C9_Witness ==
  /\ xout.kind = "daily" /\ xday = 2 /\ xpage = PgHoliday
  /\ xout.result.limitNumbers = Failed

\* C10: on a Wednesday, a usable page whose text contains 今日周三限行尾号：3和8
\* yields the daily outcome 3和8.
C10_WeekdayPair ==
  (xout.kind = "daily" /\ xday = 3 /\ Includes(xpage.text, AnchoredSentence))
    => xout.result.finalResult = ThreeEight


\* C11: getWeeklyLimitNumbers returns 7 items in the order 周一..周日 with
\* dayIndex 0..6, and exactly one item is tagged isToday: the one of the current
\* local weekday; on the normal path and on the error path.
C11_TodaySlot ==
  LET d == getDay(Last.endedAt, tzOffset) IN IF d = 0 THEN 7 ELSE d
C11_SevenSlots ==
  (HasLast /\ Last.op = "weekly") =>
    /\ DOMAIN Last.list = 1..7
    /\ \A i \in 1..7 :
         /\ Last.list[i].day = WEEK_DAYS[i]
         /\ Last.list[i].dayIndex = i - 1
         /\ Last.list[i].isToday <=> (i = C11_TodaySlot)
C11_Witness ==
  /\ HasLast /\ Last.op = "weekly" /\ Last.faulted
  /\ Last.list[7].isToday /\ Last.list[7].limitInfo = WeeklyFailed
  /\ \A i \in 1..6 : ~Last.list[i].isToday

\* C12: on the normal path of getWeeklyLimitNumbers a slot the cache holds no
\* value for carries the placeholder 暂无信息, and a slot that is not today's is
\* taken from weeklyData alone.
C12_NormalPath ==
  /\ HasLast /\ Last.op = "weekly"
  /\ \E i \in 1..7 : Last.list[i].limitInfo # WeeklyFailed
C12_SlotOk(cachedData, slot) ==
  /\ ~slot.isToday =>
       slot.limitInfo = IF cachedData.present /\ Has(cachedData.weeklyData, slot.day)
                        THEN cachedData.weeklyData[slot.day]
                        ELSE NoInfo
  /\ (\/ ~cachedData.present
      \/ /\ ~Has(cachedData.weeklyData, slot.day)
         /\ (~slot.isToday \/ cachedData.todayData = <<>>))
     => slot.limitInfo = NoInfo
C12_Placeholder ==
  C12_NormalPath => \A i \in 1..7 : C12_SlotOk(storage[Last.asked], Last.list[i])
C12_Witness ==
  /\ C12_NormalPath
  /\ storage[Last.asked].present /\ Keys(storage[Last.asked].weeklyData) = {}
  /\ \E i \in 1..7 : Last.list[i].isToday /\ Last.list[i].limitInfo = OneSix
  /\ \E i \in 1..7 : ~Last.list[i].isToday /\ Last.list[i].limitInfo = NoInfo

\* C13: getWeeklyLimitNumbers finds a fresh daily entry whose weekly map is
\* empty: it runs the weekly extraction exactly once before it builds the list.
C13_Case ==
  /\ HasLast /\ Last.op = "weekly" /\ ~Last.faulted
  /\ Last.startEntry.present /\ Last.startEntry.date = toISODate(Last.startedAt)
  /\ Keys(Last.startEntry.weeklyData) = {}
C13_WeeklyOnDemand == C13_Case => Last.fetches - Last.loopFetches = 1

\* C14: a daily query made with the refresh flag set fetches the page again,
\* also when the cache holds a fresh entry for today.
C14_ForcedRefresh ==
  (HasLast /\ Last.op = "daily" /\ Last.forced) => Last.fetch.fetched

\* C15: a daily or weekly query that has started eventually returns, also when
\* a Context.fetch call or a location call never completes.
C15_BoundedResponse == (runs[1].op # "idle") ~> (runs[1].op = "idle")

\* C16: two overlapping daily runs for one city and one day. A run that writes
\* after the other one wrote the same result leaves the entry, but for its
\* timestamp, as a single run would; and no write replaces a complete weekly
\* map written today by the weekly map the run carried forward.
C16_Entry(e) == [todayData |-> e.todayData, weeklyData |-> e.weeklyData, date |-> e.date]
C16_Single(rec) ==
  LET new == weeklyOverride(rec.finalResult, rec.timeInfo,
                            preservedWeekly(rec.startEntry, rec.todayDate),
                            rec.fetch.weeklyInfo, getWeekDayText(rec.todayDate, tzOffset))
  IN [todayData |-> new.todayData, weeklyData |-> new.weeklyData, date |-> rec.todayDate]
C16_SameAsSingle ==
  (/\ HasLast /\ Last.fetch.wrote
   /\ Last.fetch.before.present /\ Last.fetch.before # Last.startEntry
   /\ C16_Entry(Last.fetch.before) = C16_Single(Last))
    => C16_Entry(storage[Last.fetchCity]) = C16_Single(Last)
C16_NoRollback ==
  (/\ HasLast /\ Last.fetch.wrote /\ Keys(Last.fetch.weeklyInfo) = {}
   /\ Keys(Last.startEntry.weeklyData) # {}
   /\ Last.fetch.before.present /\ Last.fetch.before.date = Last.todayDate
   /\ workdayEntries(Last.fetch.before.weeklyData) = 5)
    => storage[Last.fetchCity].weeklyData = Last.fetch.before.weeklyData
C16_OverlapSafe == C16_SameAsSingle /\ C16_NoRollback

\* C17: a fetched page is interstitial exactly when its body is shorter than
\* 1000 characters and contains location.replace or meta http-equiv="refresh";
\* a short body without a marker and a long body with one are not.
C17_Marked ==
  Includes(xpage.text, <<"LOCREPLACE">>) \/ Includes(xpage.text, <<"METAREFRESH">>)
C17_Interstitial ==
  xout.kind = "page" =>
    /\ xout.redirect <=> (Length(xpage) < 1000 /\ C17_Marked)
    /\ xpage \in {PgRedirect, PgShortRefresh} => xout.redirect
    /\ xpage \in {PgTiny, PgLongRedirect} => ~xout.redirect
C17_Witness ==
  /\ xout.kind = "page" /\ xpage = PgLongRedirect
  /\ C17_Marked /\ Length(xpage) >= 1000 /\ ~xout.redirect

\* C18: the page-fetch loop of one daily fetch issues at most 3 requests,
\* whatever the responses are.
C18_RetryBound ==
  /\ \A r \in Runs : runs[r].loopFetches <= 3
  /\ HasLast => Last.loopFetches <= 3

\* C19: once an attempt of the page fetch has returned a page that is not
\* interstitial and has the minimum length, no further request is made for
\* the page.
C19_FirstValidWins ==
  /\ \A r \in Runs : ~runs[r].discarded
  /\ HasLast => ~Last.discarded

\* C20: a daily fetch whose page fetch fails returns a failure record with an
\* empty weekly map, and leaves the cache entry as it was before the call.
C20_Case ==
  /\ HasLast /\ Last.fetch.fetched /\ Last.fetch.failed /\ ~Last.faulted
C20_FailedFetchKeepsCache ==
  C20_Case =>
    /\ Includes(Last.fetch.ret.todayData, FailureWord)
    /\ Keys(Last.fetch.ret.weeklyData) = {}
    /\ storage[Last.asked] = Last.startEntry
    /\ storage[Last.fetchCity] = Last.fetch.before
C20_Witness ==
  /\ C20_Case /\ Last.fetchCity = Last.asked /\ Last.startEntry.present
  /\ Last.fetch.ret.todayData = failureText(Last.fetchCity, InvalidPageMessage)
  /\ storage[Last.fetchCity] = Last.startEntry

\* C21: no stored cache entry has the failure value 获取限号信息失败 as its
\* todayData, and no call answers from an entry that has it.
C21_NoFailureStored ==
  /\ \A c \in Cities : storage[c].present => storage[c].todayData # Failed
  /\ (HasLast /\ Last.served.present) => Last.served.todayData # Failed


\* C22: the weekly extraction gives the empty map or a complete schedule: a
\* value for each of 周一..周五, and 不限行 for 周六 and for 周日; no result has
\* between 1 and 6 keys.
C22_Complete(m) ==
  /\ Keys(m) = {WEEK_DAYS[n] : n \in 1..7}
  /\ \A n \in 1..5 : m[WEEK_DAYS[n]] # <<>>
  /\ m[WEEK_DAYS[6]] = BuXianXing /\ m[WEEK_DAYS[7]] = BuXianXing
C22_EmptyOrComplete ==
  xout.kind = "weekly" =>
    /\ Cardinality(Keys(xout.result)) \notin 1..6
    /\ (Keys(xout.result) = {} \/ C22_Complete(xout.result))
    /\ xpage \in {PgPartial, PgRuleTwo} => Keys(xout.result) = {}
C22_Witness ==
  /\ xout.kind = "weekly" /\ xpage = PgKeyword /\ C22_Complete(xout.result)
  /\ xout.result[WEEK_DAYS[1]] = OneSix /\ xout.result[WEEK_DAYS[5]] = <<"5", "he", "0">>


\* C23: a daily fetch succeeds on top of an entry of another day whose
\* weeklyData is not empty, and its weekly extraction gives the empty map or
\* fails: the stored entry has date = today, todayData = the new daily result
\* and the weeklyData of the older entry.
C23_Case ==
  /\ HasLast /\ Last.fetch.wrote /\ ~Last.faulted
  /\ Last.fetch.before.present /\ Last.fetch.before.date # Last.todayDate
  /\ Keys(Last.fetch.before.weeklyData) # {}
  /\ Keys(Last.fetch.weeklyInfo) = {}
C23_CarryForward ==
  C23_Case =>
    /\ storage[Last.fetchCity].date = toISODate(Last.endedAt)
    /\ storage[Last.fetchCity].todayData = Last.finalResult
    /\ storage[Last.fetchCity].weeklyData = Last.fetch.before.weeklyData
C23_Witness ==
  /\ C23_Case /\ Last.fetch.weeklyPage = PgEmpty
  /\ storage[Last.fetchCity].date = Last.fetch.before.date + 1
  /\ storage[Last.fetchCity].todayData = OneSix
  /\ workdayEntries(storage[Last.fetchCity].weeklyData) = 5


\* C24: a daily fetch writes the entry once, after the daily and the weekly
\* extraction: while a call is in progress the entry is the one the call found,
\* and every stored entry is a complete record with a non-empty todayData and
\* a weeklyData map.
C24_CompleteEntry(e) ==
  e.present =>
    /\ e.todayData # <<>>
    /\ Keys(e.weeklyData) \subseteq {WEEK_DAYS[n] : n \in 1..7}
C24_AtomicWrite ==
  /\ \A c \in Cities : C24_CompleteEntry(storage[c])
  /\ \A r \in Runs : ~Idle(r) => storage[runs[r].keyCity] = runs[r].startEntry
  /\ (HasLast /\ ~Last.fetch.wrote) => storage[Last.asked] = Last.startEntry
  /\ (HasLast /\ Last.fetch.wrote) =>
       /\ storage[Last.fetchCity].date = Last.todayDate
       /\ storage[Last.fetchCity].todayData = Last.fetch.ret.todayData
       /\ storage[Last.fetchCity].weeklyData = Last.fetch.ret.weeklyData
C24_Witness ==
  \E r \in Runs :
    /\ runs[r].pc = "weekly" /\ runs[r].finalResult = OneSix
    /\ runs[r].startEntry.present /\ runs[r].startEntry.date # runs[r].todayDate
    /\ storage[runs[r].city] = runs[r].startEntry


\* C25: once the op_limited_num tag has given today's value, no later
\* strategy changes the outcome, the not-restricted detection included.
C25_TagValue == opLimitedStage(xpage.text, todayWeekDayOf(xday)).limitNumbers
C25_ShortCircuit ==
  (/\ xout.kind = "daily" /\ ~xout.result.shortcut
   /\ C25_TagValue # NotFound /\ C25_TagValue # <<>>)
    => xout.result.limitNumbers = C25_TagValue

\* C26: on a Wednesday, a page that holds both 今日周三限行尾号：3和8 and a
\* Monday-to-Friday table: the sentence about today is tried and the outcome
\* is 3和8, for every city.
C26_CascadeOrder ==
  (/\ xout.kind = "daily" /\ xday = 3
   /\ Includes(xpage.text, AnchoredSentence) /\ Includes(xpage.text, TableIntro))
    => /\ "sentence" \in xout.tried
       /\ xout.result.limitNumbers = ThreeEight

\* C27: the failure outcome is produced only after every strategy has been
\* tried: the not-restricted detection, the week's table (for 北京), the
\* sentence about today, the digit patterns, the odd/even patterns and the
\* common formats of today.
C27_AllTried ==
  (xout.kind = "daily" /\ xout.result.limitNumbers = Failed)
    => /\ {"noLimit", "sentence", "numbers", "oddEven", "today"} \subseteq xout.tried
       /\ isBeijing(xcity) => "table" \in xout.tried

\* C30: getWeekDayText, the weekDayIndex computation of the daily fetch and
\* the isToday chain of getWeeklyLimitNumbers give the same name for each value
\* of Date.getDay(): 周日 for 0 and 周一..周六 for 1..6.
C30_Name == IF xday = 0 THEN WEEK_DAYS[7] ELSE WEEK_DAYS[xday]
C30_OneMapping ==
  xout.kind = "weekday" =>
    /\ xout.text = C30_Name
    /\ xout.today = C30_Name
    /\ xout.slots = {C30_Name}
C30_Witness ==
  /\ xout.kind = "weekday" /\ xday = 6
  /\ xout.text = <<"zhou", "liu">> /\ xout.today = <<"zhou", "liu">>
  /\ xout.slots = {<<"zhou", "liu">>}


\* C28: in one page fetch the second and the third request use search words
\* other than those of the first request, and the request that follows a
\* failed one does not repeat its URL.
C28_Requests(q, errors) ==
  /\ \A k \in {2, 3} : k <= Len(q) => q[k].words # q[1].words
  /\ \A k \in errors : k < Len(q) => q[k + 1] # q[k]
C28_RewordedRetries ==
  /\ \A r \in Runs : C28_Requests(runs[r].requests, runs[r].errors)
  /\ HasLast => C28_Requests(Last.requests, Last.errors)

\* C29: getWeeklyLimitNumbers on an entry of today makes no request and leaves
\* the cache as it is; on a missing or older entry it calls getLimitNumbers
\* once, and the entry it reads afterwards has date = today.
C29_Fresh == Last.startEntry.present /\ Last.startEntry.date = toISODate(Last.startedAt)
C29_DailyPathOnly ==
  (HasLast /\ Last.op = "weekly" /\ ~Last.faulted /\ Last.fetchCity = Last.asked) =>
    IF C29_Fresh
    THEN /\ Last.dailyCalls = 0 /\ Last.fetches = 0
         /\ storage[Last.asked] = Last.startEntry
    ELSE /\ Last.dailyCalls = 1
         /\ storage[Last.asked].present
              => storage[Last.asked].date = toISODate(Last.endedAt)


\* C31: the promise withTimeout returns is only ever resolved, and it is pending until
\* one of its callbacks has run; its value is the wrapped promise's value when that
\* promise fulfilled first, and the fallback value when it rejected or the timer
\* fired first; a callback that runs second changes nothing.
C31_SettlesOnce ==
  \A r \in Runs :
    /\ LET w == cityRuns[r].location
       IN /\ w.settled <=> w.count > 0
          /\ w.settled =>
               w.value = IF w.first.kind = "fulfilled" THEN w.first.value ELSE w.fallbackValue
    /\ LET w == cityRuns[r].geocode
       IN /\ w.settled <=> w.count > 0
          /\ w.settled =>
               w.value = IF w.first.kind = "fulfilled" THEN w.first.value ELSE w.fallbackValue
\* the location request answered after its timer had fired, and the call that
\* waited for it had already gone on with the fallback value
C31_Witness ==
  \E r \in Runs :
    LET w == cityRuns[r].location
    IN w.count = 2 /\ w.first.kind = "timeout" /\ w.promise = "fulfilled"
       /\ w.value = w.fallbackValue

HasCity == cityDone # <<>>
LastCity == cityDone[1]

C33_CityCachePolicy ==
  HasCity /\ ~LastCity.faulted =>
    /\ ( /\ ~LastCity.forced
         /\ LastCity.startKeys.userCity # <<>>
         /\ LastCity.startKeys.userCityCacheDate = LastCity.startedToday )
       => /\ LastCity.city = LastCity.startKeys.userCity
          /\ ~LastCity.attempted
          /\ LastCity.endKeys.tempUserCity = <<>>
          /\ LastCity.endKeys.tempUserCityTimestamp = <<>>
    /\ LastCity.forced => LastCity.attempted /\ LastCity.cleared

\* C34 as stated: after a call that took the default city, every unforced call
\* started less than 30 seconds later returns the temporary city without a location
\* request, and the first unforced call started later than that makes a location
\* request.
C34_Within == LastCity.fell /\ LastCity.fellAge < TempCityMaxAge
C34_FirstAfter ==
  LastCity.fell /\ LastCity.fellAge >= TempCityMaxAge /\ ~LastCity.fellExpired
C34_TempCacheWindow ==
  HasCity /\ ~LastCity.forced /\ ~LastCity.faulted =>
    /\ C34_Within => LastCity.city = DEFAULT_CITY /\ ~LastCity.attempted
    /\ C34_FirstAfter => LastCity.attempted
\* C34, amended: the same, for a call that took the default city while no other call
\* was in progress, and as long as no call, forced or not, has made a location
\* request since.
C34_UndisturbedWindow ==
  HasCity /\ ~LastCity.forced /\ ~LastCity.faulted /\ LastCity.fellClean =>
    /\ C34_Within => LastCity.city = DEFAULT_CITY /\ ~LastCity.attempted
    /\ C34_FirstAfter => LastCity.attempted
\* the default city was taken, 30 seconds passed, and the next unforced call made a
\* location request
C34_Witness ==
  /\ HasCity /\ ~LastCity.forced /\ ~LastCity.faulted /\ LastCity.fellClean
  /\ C34_FirstAfter
  /\ LastCity.attempted
\* the default city was taken, and an unforced call three seconds later was answered
\* from the temporary cache
C34_WitnessWithin ==
  /\ HasCity /\ ~LastCity.forced /\ ~LastCity.faulted /\ LastCity.fellClean
  /\ C34_Within /\ LastCity.fellAge > 0
  /\ LastCity.path = "temp"

\* C37: Storage never holds a temporary default city and a resolved city at once.
C37_NeverBoth == ~(cityKeys.tempUserCity # <<>> /\ cityKeys.userCity # <<>>)

\* C35: a getLimitNumbers call that received a usable page and a
\* getWeeklyLimitNumbers call after it, for the same city on the same calendar day,
\* which made no request or received a usable page too: the limitInfo of the slot
\* tagged isToday is the limitInfo the daily call returned.
C35_Case ==
  /\ HasLast /\ Last.op = "weekly" /\ Last.prev.op = "daily"
  /\ Last.prev.asked = Last.asked /\ Last.fetchCity = Last.asked
  /\ Last.prev.city = Last.city
  /\ sameDay(Last.prev.startedAt, Last.endedAt)
  /\ Last.prev.usable /\ ~Last.prev.faulted /\ ~Last.faulted
  /\ Last.fetches = 0 \/ Last.usable
C35_SameToday == C35_Case => todayOf(Last) = Last.prev.today

\* C36: in a daily fetch that reaches the weekly override, the weekday read from the
\* date string of the entry is the weekday the extraction took as today.
C36_SameWeekday ==
  (HasLast /\ Last.fetch.fetched /\ Last.fetch.wrote)
    => getWeekDayText(Last.todayDate, tzOffset) = todayWeekDayOf(Last.extractIndex)

\* C38: a call changes no cache entry but the one of the city it resolved first, the
\* city it returns: when an entry changes, the call that returns in that step was
\* resolved to the city of that entry.
C38_OwnKeyOnly ==
  [][\A c \in Cities :
       storage'[c] # storage[c] => done' # <<>> /\ done'[1].asked = c]_vars

\* C39: every entry in the cache has a todayData that is not empty and the date of
\* the instant in its timestamp, the one at which the entry was made; getLimitNumbers
\* never finds an entry of today without todayData.
C39_TodayDataStored ==
  \A c \in Cities :
    /\ storage[c].present =>
         /\ storage[c].todayData # <<>>
         /\ storage[c].date = toISODate(storage[c].timestamp)
    /\ ~incompleteCache(storage[c], toISODate(now))
\* a fetch whose page gave no value stored the failure text as todayData
C39_Witness ==
  /\ HasLast /\ Last.fetch.wrote /\ Last.finalResult = Failed
  /\ storage[BeiJing].present
  /\ storage[BeiJing].todayData = Failed
  /\ storage[BeiJing].date = toISODate(now)

\* C40: on a workday, the weekday name in the pattern about tomorrow is the name of
\* the day after today.
C40_Tomorrow ==
  (xout.kind = "weekday" /\ xday \in 1..5)
    => xout.tomorrow = weekDayTextOf((xday + 1) % 7)
====
